---- MODULE Spec2Model ----
(***************************************************************************)
(* A model of cnstlltn: the selection engine of main() and the per-resource *)
(* convergence state machine (up_resource / down_resource) driven against  *)
(* the locked state document of StateStorage.                              *)
(*                                                                         *)
(* The model starts from a finalized model object (the state after         *)
(* validate_and_finalize_model returned): resources, their dependencies,   *)
(* and the rendered bags 'common', 'up', 'down' and 'precheck'.            *)
(***************************************************************************)
EXTENDS Integers, Sequences, FiniteSets, TLC

\* ------------------------------------------------------------------ universe

\* Resource names, in the order sorted() gives them.
NameOrder == <<"app", "db", "web">>

Names == {NameOrder[i] : i \in 1..Len(NameOrder)}

\* Lines a single up script writes to its checkpoint fifo, at most.
MaxLines == 2

\* ------------------------------------------------------------ pure helpers

\* dict.get(key, default)
Get(d, k, default) == IF k \in DOMAIN d THEN d[k] ELSE default

\* dict.pop(key, None), as a new mapping
Pop(d, k) == [x \in DOMAIN d \ {k} |-> d[x]]

\* d[k] = v, as a new mapping
Put(d, k, v) == (k :> v) @@ d

\* sorted(set of names)
Sorted(S) == SelectSeq(NameOrder, LAMBDA n : n \in S)

\* set(list)
ToSet(seq) == {seq[i] : i \in 1..Len(seq)}

\* reversed(list)
Reverse(seq) == [i \in 1..Len(seq) |-> seq[Len(seq) + 1 - i]]

\* filter(lambda i: pred, list)
Filter(seq, S) == SelectSeq(seq, LAMBDA n : n \in S)

\* _cli.add_dicts: c = dict(a); c.update(b)
add_dicts(a, b) == b @@ a

\* _cli.inverse_setdict
inverse_setdict(setdict) ==
    LET vals == UNION {setdict[k] : k \in DOMAIN setdict}
    IN  [i \in vals |-> {k \in DOMAIN setdict : i \in setdict[k]}]

\* with_all_dependencies without its loop: the direct dependencies only
with_all_dependencies_direct(of, deps) ==
    of \cup UNION {Get(deps, i, {}) : i \in of}

RECURSIVE with_all_dependencies(_, _)
\* _cli.with_all_dependencies
with_all_dependencies(of, deps) ==
    LET new == of \cup UNION {Get(deps, i, {}) : i \in of}
    IN  IF new = of THEN of ELSE with_all_dependencies(new, deps)

\* with_all_dependents without the inversion of the graph
with_all_dependents_uninverted(of, deps) == with_all_dependencies(of, deps)

\* _cli.with_all_dependents
with_all_dependents(of, deps) == with_all_dependencies(of, inverse_setdict(deps))

\* toposort.toposort's normalisation of its input: self-dependencies are
\* dropped and items that occur only as dependencies get an empty set.
ToposortData(data) ==
    LET extra == (UNION {data[k] : k \in DOMAIN data}) \ DOMAIN data
    IN  [k \in DOMAIN data \cup extra |->
            IF k \in DOMAIN data THEN data[k] \ {k} ELSE {}]

RECURSIVE ToposortLoop(_)
\* toposort.toposort's loop, flattened with each level sorted
\* (toposort_flatten(sort=True)); what a cycle leaves over is dropped here
\* and reported by CircularDependency.
ToposortLoop(data) ==
    LET ordered == {k \in DOMAIN data : data[k] = {}}
    IN  IF ordered = {} THEN << >>
        ELSE Sorted(ordered) \o
             ToposortLoop([k \in DOMAIN data \ ordered |-> data[k] \ ordered])

RECURSIVE ToposortRest(_)
ToposortRest(data) ==
    LET ordered == {k \in DOMAIN data : data[k] = {}}
    IN  IF ordered = {} THEN DOMAIN data
        ELSE ToposortRest([k \in DOMAIN data \ ordered |-> data[k] \ ordered])

\* toposort raises CircularDependencyError
CircularDependency(data) == ToposortRest(ToposortData(data)) # {}

toposort_flatten(data) == ToposortLoop(ToposortData(data))

\* toposort_dependencies that sorts the names instead of the graph
toposort_dependencies_by_name(of, deps) == Sorted(of)

\* _cli.toposort_dependencies
toposort_dependencies(of, deps) == Filter(toposort_flatten(deps), of)

\* --------------------------------------------------------------- the model

\* Python's None, where a rendered text or a checkpoint may be absent.
None == "None"

\* tags of a resource without explicit tags (validate_and_finalize_model)
Untagged == {"untagged"}

\* _ResourceData of a finalized resource: what up_resource reads of it.
\*   identity, upver, downver: the text variants of the 'identity' file and
\*   of the 'up' and 'down' script chunks the model file declares.
ResourceData(identity, upver, always_refresh, exports, imports) ==
    [ identity       |-> identity,
      upver          |-> upver,
      downver        |-> 1,
      always_refresh |-> always_refresh,
      exports        |-> exports,
      mementos       |-> {},
      imports        |-> imports,
      const          |-> << >>,
      tags           |-> Untagged,
      used_modes     |-> {} ]

\* A resource that imports and exports nothing.
PlainData == ResourceData("v1", 1, FALSE, {}, << >>)

\* validate_and_finalize_model: model.dependencies[res_name] is the union of
\* depends and of the resources named by imports.
Dependencies(depends, data) ==
    [r \in DOMAIN data |->
        depends[r] \cup {data[r].imports[i][1] : i \in DOMAIN data[r].imports}]

\* The Model object after the loop of validate_and_finalize_model, lines
\* 85-133.
MakeModel(depends, data) ==
    [ resources    |-> DOMAIN data,
      data         |-> data,
      dependencies |-> Dependencies(depends, data),
      aliases      |-> << >> ]

\* Model.resource(name, aliases=[...]), model.py lines 193-206: the alias
\* table, old name -> current name; an alias is never the name of a resource.
WithAliases(m, aliases) == [m EXCEPT !.aliases = aliases]

\* model.modes: the modes the model files define.
Modes == {"env"}

\* validate_and_finalize_model, lines 104-133: the errors the loop over the
\* resources may raise, none when it ends.  depends is copied to the
\* dependencies unchecked (lines 101-102); of a resource the imports are
\* checked before the modes.
ValidationErrors(m) ==
    LET of(r) ==
            LET d == m.data[r]
                imports ==
                    {[kind |-> "non-existent resource", resource |-> r,
                      names |-> {d.imports[i][1]}] :
                        i \in {i \in DOMAIN d.imports :
                                  d.imports[i][1] \notin m.resources}}
                    \cup
                    {[kind |-> "not exported", resource |-> r,
                      names |-> {d.imports[i][2]}] :
                        i \in {i \in DOMAIN d.imports :
                                  /\ d.imports[i][1] \in m.resources
                                  /\ d.imports[i][2] \notin
                                         m.data[d.imports[i][1]].exports}}
            IN  IF imports # {} THEN imports
                ELSE {[kind |-> "undefined mode", resource |-> r,
                       names |-> {mode}] : mode \in d.used_modes \ Modes}
    IN  UNION {of(r) : r \in m.resources}

\* validate_and_finalize_model, lines 135-138: e.data names what toposort
\* could not order.
CircularError(m) ==
    [ kind |-> "circular", names |-> ToposortRest(ToposortData(m.dependencies)) ]

\* validate_and_finalize_model, lines 85-138: the errors it may raise.
ModelErrors(m) ==
    IF ValidationErrors(m) # {} THEN ValidationErrors(m)
    ELSE IF CircularDependency(m.dependencies) THEN {CircularError(m)}
    ELSE {}

\* model.resource_order
resource_order(m) == toposort_flatten(m.dependencies)

\* ----------------------------------------------------------------- options

Flags == {"full", "ignore_identity_change", "ignore_checkpoints"}

\* The command line after names_to_re / make_tags_matcher.  A name filter is
\* kept as the set of resource names it matches: --only and --tags match
\* every name when they are not given, --skip and --skip-tags match none.
Options(only, skip, flags) ==
    [ only |-> only, tags |-> Names, skip |-> skip, skip_tags |-> {},
      tag_exprs |-> << >>, workspace |-> "", flags |-> flags ]

\* main.is_included
is_included(o, res_name) ==
    ~ ( res_name \notin o.only \/ res_name \notin o.tags )

\* main.is_excluded
is_excluded(o, res_name) ==
    res_name \in o.skip \/ res_name \in o.skip_tags

\* ------------------------------------------------------------ the document

\* state.setdefault('resources', {}) of a loaded document
ResourcesOf(doc) == Get(doc, "resources", << >>)

\* process_aliases, lines 174-179: the name an entry is kept under
NewName(aliases, name) ==
    IF Get(aliases, name, None) # None THEN aliases[name] ELSE name

\* process_aliases, lines 166-181: dict(processed).  The loaded document
\* has its keys in sorted order (json.dump(sort_keys=True)), and of two
\* entries kept under one name dict() keeps the one that comes last.
process_aliases(existing_resources, aliases) ==
    LET sources(t) == Sorted({n \in DOMAIN existing_resources :
                                 NewName(aliases, n) = t})
    IN  [t \in {NewName(aliases, n) : n \in DOMAIN existing_resources} |->
            existing_resources[sources(t)[Len(sources(t))]]]

\* Every existing resource is a candidate, with or without --down.
DownCandidates_all(m, o, existing_resources) == DOMAIN existing_resources

\* main, lines 1043-1048: the candidates
DownCandidates(m, o, existing_resources) ==
    IF "down" \in o.flags THEN DOMAIN existing_resources
    ELSE DOMAIN existing_resources \ m.resources

UpCandidates(m, o) ==
    IF "down" \in o.flags THEN << >> ELSE resource_order(m)

\* main, line 1026
existing_dependencies(existing_resources) ==
    [k \in DOMAIN existing_resources |-> existing_resources[k].deps]

\* SelectDown without reversed()
SelectDown_forward(m, o, existing_resources) ==
    LET deps     == existing_dependencies(existing_resources)
        included == {n \in DownCandidates(m, o, existing_resources) : is_included(o, n)}
        expanded == with_all_dependents(included, deps)
        kept     == expanded \ with_all_dependencies(
                        {n \in expanded : is_excluded(o, n)}, deps)
    IN  toposort_dependencies(kept, deps)

\* main, lines 1062-1068
SelectDown(m, o, existing_resources) ==
    LET deps     == existing_dependencies(existing_resources)
        included == {n \in DownCandidates(m, o, existing_resources) : is_included(o, n)}
        expanded == with_all_dependents(included, deps)
        kept     == expanded \ with_all_dependencies(
                        {n \in expanded : is_excluded(o, n)}, deps)
    IN  Reverse(toposort_dependencies(kept, deps))

\* SelectUp that removes the excluded resources but not their dependents
SelectUp_excluded_only(m, o) ==
    LET included == {n \in ToSet(UpCandidates(m, o)) : is_included(o, n)}
        expanded == with_all_dependencies(included, m.dependencies)
        kept     == expanded \ {n \in expanded : is_excluded(o, n)}
    IN  toposort_dependencies(kept, m.dependencies)

\* main, lines 1070-1076
SelectUp(m, o) ==
    LET included == {n \in ToSet(UpCandidates(m, o)) : is_included(o, n)}
        expanded == with_all_dependencies(included, m.dependencies)
        kept     == expanded \ with_all_dependents(
                        {n \in expanded : is_excluded(o, n)}, m.dependencies)
    IN  toposort_dependencies(kept, m.dependencies)

\* ------------------------------------------------------------------- state

VARIABLES
    mdl,                \* the finalized model of the running invocation
    opts,               \* its options
    stored,             \* the state document the backend holds
    opened,             \* the backend's _opened: the session holds the lock
    state,              \* StateStorageContext: the document in memory
    pc,                 \* where the main thread is
    result,             \* how the invocation is ending: "success" or "fail"
    resources_to_down,  \* main's final down list
    resources_to_up,    \* main's final up list
    res_i,              \* position in the list being processed (from 1)
    resources_vars,     \* exports published in this run, by resource
    loc,                \* locals of the running up_resource / down_resource
    work,               \* files written to the working directories of loc.res
    fifo,               \* lines written to the checkpoint fifo and not yet read
    wopen,              \* some process holds the fifo open for writing
    lst,                \* the checkpoint thread: none, read, write, done, dead
    emitted,            \* lines the running up script has written so far
    ran,                \* scripts started in this run: <<kind, resource>>
    last,               \* the previous invocation: model, options, outcome
    repeat,             \* this run repeats a successful run, unchanged
    backend,            \* the backend of the model: aws, aws_unlocked, file
    lock,               \* the holder of the backend's lock: none, main, rival
    waited,             \* how long the invocation has been waiting for the lock
    rival,              \* another invocation of the tool on the same storage
    error               \* the error the invocation has raised, as far as modelled

vars == << mdl, opts, stored, opened, state, pc, result, resources_to_down,
           resources_to_up, res_i, resources_vars, loc, work, fifo, wopen,
           lst, emitted, ran, last, repeat, backend, lock, waited, rival,
           error >>

\* What an action that has nothing to do with the lock, the other invocation
\* or the error raised leaves alone.
sessvars == << backend, lock, waited, rival, error >>

NoModel == MakeModel(<< >>, << >>)

NoOptions == Options(Names, {}, {})

NoLoc == [ res |-> None, is_new |-> FALSE, old_files |-> << >>,
           new_files |-> << >>, had_entry |-> FALSE, stored_identity |-> None,
           stored_checkpoint |-> None, down_done |-> FALSE, up_exit |-> "none",
           produced |-> << >> ]

NoWork == [ up |-> << >>, down |-> << >>, precheck |-> << >>,
            last_checkpoint |-> None ]

NoLast == [ mdl |-> NoModel, opts |-> NoOptions, result |-> "none", runs |-> 0,
            interrupted |-> None ]

\* No error is raised.
NoError == [ kind |-> "none", names |-> {} ]

\* The other invocation is not running.
NoRival == [ pc |-> "idle", data |-> << >>, seen |-> << >> ]

\* No invocation is running; backend b holds document doc.
IdleOn(doc, b) ==
    /\ mdl = NoModel
    /\ opts = NoOptions
    /\ stored = doc
    /\ opened = FALSE
    /\ state = << >>
    /\ pc = "idle"
    /\ result = "none"
    /\ resources_to_down = << >>
    /\ resources_to_up = << >>
    /\ res_i = 0
    /\ resources_vars = << >>
    /\ loc = NoLoc
    /\ work = NoWork
    /\ fifo = << >>
    /\ wopen = FALSE
    /\ lst = "none"
    /\ emitted = 0
    /\ ran = {}
    /\ last = NoLast
    /\ repeat = FALSE
    /\ backend = b
    /\ lock = "none"
    /\ waited = 0
    /\ rival = NoRival
    /\ error = NoError

\* No invocation is running; the locking backend holds document doc.
Idle(doc) == IdleOn(doc, "aws")

\* StateStorage.__enter__ and main, lines 978-993: the loaded document, with
\* the workspace recorded in an empty one and 'resources' defaulted.
LoadedState(doc, o) ==
    LET d == IF doc = << >> THEN Put(doc, "workspace", o.workspace) ELSE doc
    IN  Put(d, "resources", ResourcesOf(d))

\* A document that json.load rejects.
Corrupt == [ corrupt |-> TRUE ]

\* StateStorage.__enter__.load_cb: json.load succeeds
Loadable(doc) == doc # Corrupt

\* main, lines 977-979: the loaded document is not empty and its workspace
\* is not the one selected
\* The workspace check that lets every document pass.
WorkspaceMismatch_never(doc, o) == FALSE

WorkspaceMismatch(doc, o) ==
    doc # << >> /\ o.workspace # Get(doc, "workspace", "")

\* AwsStateStorage.open_and_read, lines 37-38: the lock after the backend
\* got it for invocation who; a backend made with locking=False has no lock
\* client.  The lock client gives the lock when nobody holds it.
acquire_lock(l, b, who) == IF b = "aws" /\ l = "none" THEN who ELSE l

\* A close that keeps the lock.
release_lock_never(l, b, who) == l

\* AwsStateStorage.close, lines 65-66, and open_and_read, lines 57-58
release_lock(l, b, who) == IF b = "aws" /\ l = who THEN "none" ELSE l

\* main, lines 937-1110: the model is loaded and finalized, the session is
\* opened (the lock taken, the document read) and the two lists are computed.
OpenSession(m, o) ==
    /\ "edit" \notin o.flags
    /\ Loadable(stored)
    /\ ~WorkspaceMismatch(stored, o)
    /\ backend # "file"
    /\ backend = "aws" => lock = "none"
    /\ lock' = acquire_lock(lock, backend, "main")
    /\ UNCHANGED << backend, waited, rival, error >>
    /\ mdl' = m
    /\ opts' = o
    /\ opened' = TRUE
    /\ state' = LoadedState(stored, o)
    /\ resources_to_down' =
           SelectDown(m, o, process_aliases(ResourcesOf(stored), m.aliases))
    /\ resources_to_up' = SelectUp(m, o)
    /\ repeat' = ( /\ last.result = "success"
                   /\ last.mdl = m
                   /\ last.opts.only = o.only
                   /\ last.opts.skip = o.skip
                   /\ last.opts.flags \cap {"down", "pretend", "forget"} = {}
                   /\ o.flags \cap {"full", "down", "pretend", "forget"} = {} )
    /\ pc' = "planned"
    /\ result' = "success"
    /\ ran' = {}
    /\ UNCHANGED << stored, res_i, resources_vars, loc, work, fifo, wopen,
                    lst, emitted, last >>

\* The invocation starts and finds the session free to open.
StartRun(m, o) ==
    /\ pc = "idle"
    /\ ~opened
    /\ ModelErrors(m) = {}
    /\ OpenSession(m, o)

\* main, line 953: validate_and_finalize_model raises, the invocation ends
\* before the with block of line 955.
RejectModel(m, o) ==
    /\ pc = "idle"
    /\ ~opened
    /\ \E err \in ModelErrors(m) : error' = err
    /\ mdl' = m
    /\ opts' = o
    /\ result' = "fail"
    /\ pc' = "exiting"
    /\ UNCHANGED << stored, opened, state, resources_to_down, resources_to_up,
                    res_i, resources_vars, loc, work, fifo, wopen, lst,
                    emitted, ran, last, repeat, backend, lock, waited, rival >>

\* --pretend is not looked at: the run is processed.
Pretend_proceeding ==
    /\ pc = "planned"
    /\ "pretend" \in opts.flags
    /\ state' = [state EXCEPT
                    !.resources = process_aliases(state.resources, mdl.aliases)]
    /\ stored' = state'
    /\ pc' = "down_loop"
    /\ res_i' = 1
    /\ UNCHANGED << mdl, opts, opened, result, resources_to_down,
                    resources_to_up, resources_vars, loc, work, fifo, wopen,
                    lst, emitted, ran, last, repeat >>
    /\ UNCHANGED sessvars

\* main, line 1113: with --pretend nothing is processed.
Pretend ==
    /\ pc = "planned"
    /\ "pretend" \in opts.flags
    /\ pc' = "closing"
    /\ UNCHANGED << mdl, opts, stored, opened, state, result,
                    resources_to_down, resources_to_up, res_i, resources_vars,
                    loc, work, fifo, wopen, lst, emitted, ran, last, repeat >>
    /\ UNCHANGED sessvars

\* StateStorage.__exit__: the backend is closed and the lock released, on
\* the way out of the with block, by return or by exception.
CloseSession ==
    /\ pc = "closing"
    /\ opened' = FALSE
    /\ lock' = release_lock(lock, backend, "main")
    /\ UNCHANGED << backend, waited, rival, error >>
    /\ pc' = "exiting"
    /\ UNCHANGED << mdl, opts, stored, state, result, resources_to_down,
                    resources_to_up, res_i, resources_vars, loc, work, fifo,
                    wopen, lst, emitted, ran, last, repeat >>

\* The process ends: the interpreter waits for the checkpoint thread, which
\* is not a daemon, and exits.
ProcessExit ==
    /\ pc = "exiting"
    /\ error' = NoError
    /\ waited' = 0
    /\ UNCHANGED << backend, lock, rival >>
    /\ lst \in {"none", "done", "dead"}
    /\ last' = [ mdl |-> IF result = "success" THEN mdl ELSE NoModel,
                 opts |-> IF result = "success" THEN opts ELSE NoOptions,
                 result |-> result, runs |-> last.runs + 1,
                 interrupted |-> None ]
    /\ mdl' = NoModel
    /\ opts' = NoOptions
    /\ state' = << >>
    /\ pc' = "idle"
    /\ result' = "none"
    /\ resources_to_down' = << >>
    /\ resources_to_up' = << >>
    /\ res_i' = 0
    /\ resources_vars' = << >>
    /\ loc' = NoLoc
    /\ work' = NoWork
    /\ fifo' = << >>
    /\ wopen' = FALSE
    /\ lst' = "none"
    /\ emitted' = 0
    /\ ran' = {}
    /\ repeat' = FALSE
    /\ UNCHANGED << stored, opened >>

\* ------------------------------------------------------------- up_resource

\* Values an up script may write for an export.
ExportValues == {"h1", "h2"}

\* The k-th line an up script writes to its checkpoint fifo.
Line(k) == ToString(k)

\* up_resource, lines 444-448
Imports(d, rv) ==
    add_dicts([i \in DOMAIN d.imports |-> rv[d.imports[i][1]][d.imports[i][2]]],
              d.const)

\* up_resource, lines 450-459: every bag rendered against the import map.
\* The scripts are the ones validate_and_finalize_model generates, which
\* always start with "set -euo pipefail".
Render(d, imports) ==
    [ common   |-> ("identity" :> d.identity) @@ ("imports.json" :> imports),
      up       |-> ("script.sh" :> << "set -euo pipefail", "up", d.upver >>),
      down     |-> ("script.sh" :> << "set -euo pipefail", "down", d.downver >>),
      precheck |-> ("script.sh" :> << "set -euo pipefail", "precheck" >>) ]

\* An empty text
EmptyText == << >>

\* main, line 1153, and up_resource, line 445: the KeyError of a resource of
\* the up list that the model does not define, or of an import whose source
\* has no variables yet.
KeyErrors(m, r, rv) ==
    IF r \notin m.resources
    THEN {[kind |-> "KeyError", names |-> {r}]}
    ELSE LET imports == m.data[r].imports
         IN  {[kind |-> "KeyError", names |-> {imports[i][1]}] :
                 i \in {i \in DOMAIN imports : imports[i][1] \notin DOMAIN rv}}
             \cup
             {[kind |-> "KeyError", names |-> {imports[i][2]}] :
                 i \in {i \in DOMAIN imports :
                           /\ imports[i][1] \in DOMAIN rv
                           /\ imports[i][2] \notin DOMAIN rv[imports[i][1]]}}

\* The error of up_resource.check_products for names x_names of kind x_kind,
\* which is "variable" or "memento".
ProductsError(res_name, what, x_kind, x_names) ==
    [ kind |-> what, of |-> x_kind, resource |-> res_name, names |-> x_names ]

\* check_products that looks for the missing names only.
check_products_errors_missing_only(res_name, d, resource_vars, resource_mementos) ==
    IF d.exports \ DOMAIN resource_vars # {}
    THEN {ProductsError(res_name, "did not export", "variable", {x}) :
              x \in d.exports \ DOMAIN resource_vars}
    ELSE {ProductsError(res_name, "did not export", "memento", {x}) :
              x \in d.mementos \ DOMAIN resource_mementos}

\* check_products that checks the variables only.
check_products_errors_variables_only(res_name, d, resource_vars, resource_mementos) ==
    IF d.exports \ DOMAIN resource_vars # {}
    THEN {ProductsError(res_name, "did not export", "variable", {x}) :
              x \in d.exports \ DOMAIN resource_vars}
    ELSE IF DOMAIN resource_vars \ d.exports # {}
    THEN {ProductsError(res_name, "exported unexpected", "variable",
                        DOMAIN resource_vars \ d.exports)}
    ELSE {}

\* up_resource.check_products, lines 487-506: the errors it may raise, none
\* when it returns.  The variables are checked before the mementos, the
\* missing names before the unexpected ones; the missing name that is
\* reported is the first one the iteration over the declared set meets.
check_products_errors(res_name, d, resource_vars, resource_mementos) ==
    IF d.exports \ DOMAIN resource_vars # {}
    THEN {ProductsError(res_name, "did not export", "variable", {x}) :
              x \in d.exports \ DOMAIN resource_vars}
    ELSE IF DOMAIN resource_vars \ d.exports # {}
    THEN {ProductsError(res_name, "exported unexpected", "variable",
                        DOMAIN resource_vars \ d.exports)}
    ELSE IF d.mementos \ DOMAIN resource_mementos # {}
    THEN {ProductsError(res_name, "did not export", "memento", {x}) :
              x \in d.mementos \ DOMAIN resource_mementos}
    ELSE IF DOMAIN resource_mementos \ d.mementos # {}
    THEN {ProductsError(res_name, "exported unexpected", "memento",
                        DOMAIN resource_mementos \ d.mementos)}
    ELSE {}

\* up_resource.check_products returns
check_products_accepting(res_name, d, resource_vars, resource_mementos) == TRUE

check_products(res_name, d, resource_vars, resource_mementos) ==
    check_products_errors(res_name, d, resource_vars, resource_mementos) = {}

\* What an up script that exits with status 0 may leave in its exports
\* directory: any of the declared exports and a file nobody declared.
ProducedExports(d) ==
    LET declared == UNION {[S -> ExportValues] : S \in SUBSET d.exports}
    IN  declared \cup {Put(f, "junk", "h1") : f \in declared}

\* What it may leave in its mementos directory.
ProducedMementos(d) ==
    UNION {[S -> {"secret"}] : S \in SUBSET (d.mementos \cup {"stray"})}

\* up_resource.memento_cb, lines 615-619: the names of the mementos by mode
mementos_modes(resource_mementos) ==
    IF resource_mementos = << >> THEN << >>
    ELSE "0o600" :> DOMAIN resource_mementos

\* state['resources'][r] = e
UpdateEntry(doc, r, e) == [doc EXCEPT !.resources = Put(doc.resources, r, e)]

\* The entry is kept.
DeleteEntry_kept(doc, r) == doc

\* del state['resources'][r]
DeleteEntry(doc, r) == [doc EXCEPT !.resources = Pop(doc.resources, r)]

\* up_resource, line 508
Triggered(o, d, dirty, new_uc, old_uc) ==
    "full" \in o.flags \/ dirty \/ d.always_refresh \/ new_uc # old_uc

\* Marks the entry dirty and keeps its exports.
MarkDirty_keeping_exports(e) == Put(e, "dirty", TRUE)

\* up_resource, lines 517-518
MarkDirty(e) == Pop(Put(e, "dirty", TRUE), "exports")

\* No change of identity is ever seen.
IdentityChanged_never(o, is_new, old_uc, new_uc) == FALSE

\* up_resource, lines 520-528
IdentityChanged(o, is_new, old_uc, new_uc) ==
    /\ ~is_new
    /\ "ignore_identity_change" \notin o.flags
    /\ Get(old_uc, "identity", None) # Get(new_uc, "identity", None)

\* Stores the new files and metadata and keeps the checkpoint in the entry.
PreparedEntry_keeping_checkpoint(e, d, new_files, new_deps) ==
    Put(Put(Put(Put(e,
        "files", new_files), "deps", new_deps), "tags", d.tags),
        "used_modes", d.used_modes)

\* up_resource, lines 576-581: the entry persisted before the up script
PreparedEntry_without_deps(e, d, new_files, new_deps) ==
    Put(Put(Put(Pop(e, "checkpoint"),
        "files", new_files), "tags", d.tags), "used_modes", d.used_modes)

PreparedEntry_keeping_files(e, d, new_files, new_deps) ==
    Put(Put(Put(Pop(e, "checkpoint"),
        "deps", new_deps), "tags", d.tags), "used_modes", d.used_modes)

PreparedEntry(e, d, new_files, new_deps) ==
    Put(Put(Put(Put(Pop(e, "checkpoint"),
        "files", new_files), "deps", new_deps), "tags", d.tags),
        "used_modes", d.used_modes)

\* Commits the entry and leaves it dirty.
CommittedEntry_dirty(e, exports, mementos) ==
    Pop(Pop(Put(Put(Put(Put(e,
        "exports", exports), "mementos", mementos),
        "mementos_modes", mementos_modes(mementos)), "message", None),
        "state"), "checkpoint")

\* up_resource, lines 631-640: the entry committed after the up script
CommittedEntry(e, exports, mementos) ==
    Pop(Pop(Put(Put(Put(Put(Put(e,
        "dirty", FALSE), "exports", exports), "mementos", mementos),
        "mementos_modes", mementos_modes(mementos)), "message", None),
        "state"), "checkpoint")

\* up_resource, lines 482-485 and 653: the metadata of the entry changed
MetadataChanged_ignoring_files(e, new_files, new_deps, new_tags) ==
    \/ "deps" \notin DOMAIN e
    \/ e.deps # new_deps
    \/ Get(e, "tags", {}) # new_tags

MetadataChanged(e, new_files, new_deps, new_tags) ==
    \/ "deps" \notin DOMAIN e
    \/ e.deps # new_deps
    \/ Get(e, "files", << >>) # new_files
    \/ Get(e, "tags", {}) # new_tags

\* The running transition is over; the next resource of the list is due.
NextResource ==
    /\ res_i' = res_i + 1
    /\ loc' = NoLoc
    /\ work' = NoWork
    /\ fifo' = << >>
    /\ wopen' = FALSE
    /\ lst' = "none"
    /\ emitted' = 0

\* An exception that is swallowed: the loop goes on.
Raise_swallowed ==
    /\ result' = "fail"
    /\ pc' = "up_loop"

\* An exception leaves the loops: main's finally clause, then the with block.
Raise ==
    /\ result' = "fail"
    /\ pc' = "closing"

\* up_resource, lines 576-597, from entry e of resource r in memory: the
\* checkpoint is taken out of the entry and handed over in last-checkpoint,
\* the new files and metadata are stored and persisted, the fifo is made,
\* the checkpoint thread is started and the up script is run.
EnterUpScript(r, e) ==
    LET d == mdl.data[r]
        last_checkpoint == Get(e, "checkpoint", None)
        prepared == PreparedEntry(e, d, loc.new_files, mdl.dependencies[r])
    IN  /\ work' = [work EXCEPT !.last_checkpoint =
                        IF last_checkpoint # None
                           /\ "ignore_checkpoints" \notin opts.flags
                        THEN last_checkpoint ELSE None]
        /\ state' = UpdateEntry(state, r, prepared)
        /\ stored' = state'
        /\ fifo' = << >>
        /\ wopen' = TRUE
        /\ lst' = "read"
        /\ emitted' = 0
        /\ ran' = ran \cup {<< "up", r >>}
        /\ pc' = "up_script"

\* main, lines 1113-1125: the run is confirmed, the possibly renamed
\* resources are stored back and persisted, and the loops start.
Proceed ==
    /\ pc = "planned"
    /\ "pretend" \notin opts.flags
    /\ state' = [state EXCEPT
                    !.resources = process_aliases(state.resources, mdl.aliases)]
    /\ stored' = state'
    /\ pc' = "down_loop"
    /\ res_i' = 1
    /\ UNCHANGED << mdl, opts, opened, result, resources_to_down,
                    resources_to_up, resources_vars, loc, work, fifo, wopen,
                    lst, emitted, ran, last, repeat >>
    /\ UNCHANGED sessvars

\* The entry is left as it is before the down script.
DownMarked_unmarked(e) == e

\* down_resource, line 683
DownMarked(e) == Put(e, "dirty", TRUE)

\* main, lines 1129-1130: the entries of the down list are deleted.
Forgotten(doc, names) ==
    [doc EXCEPT !.resources =
        [r \in DOMAIN doc.resources \ ToSet(names) |-> doc.resources[r]]]

\* main, lines 1128-1135 and 1151, with --forget: the entries of the down
\* list are deleted and the document is persisted; no down script is run.
Forget ==
    /\ pc = "down_loop"
    /\ "forget" \in opts.flags
    /\ state' = Forgotten(state, resources_to_down)
    /\ stored' = state'
    /\ pc' = "up_loop"
    /\ res_i' = 1
    /\ resources_vars' = << >>
    /\ UNCHANGED << mdl, opts, opened, result, resources_to_down,
                    resources_to_up, loc, work, fifo, wopen, lst, emitted,
                    ran, last, repeat >>
    /\ UNCHANGED sessvars

\* down_resource, lines 671-696: the stored common and down files are
\* written out, the entry is marked dirty and persisted, the script starts.
DownBegin ==
    /\ pc = "down_loop"
    /\ "forget" \notin opts.flags
    /\ res_i <= Len(resources_to_down)
    /\ LET r == resources_to_down[res_i]
           e == state.resources[r]
           files == Get(e, "files", << >>)
       IN  /\ work' = [NoWork EXCEPT !.down =
                          add_dicts(Get(files, "common", << >>),
                                    Get(files, "down", << >>))]
           /\ state' = UpdateEntry(state, r, DownMarked(e))
           /\ stored' = state'
           /\ loc' = [NoLoc EXCEPT !.res = r]
           /\ ran' = ran \cup {<< "down", r >>}
    /\ pc' = "down_script"
    /\ UNCHANGED << mdl, opts, opened, result, resources_to_down,
                    resources_to_up, res_i, resources_vars, fifo, wopen, lst,
                    emitted, last, repeat >>
    /\ UNCHANGED sessvars

\* run_script(kind='down', confirm_bail=True) returns or raises, and
\* down_resource, lines 698-699: the entry is deleted and persisted.
DownExit ==
    /\ pc = "down_script"
    /\ \E outcome \in {"ok", "ignore", "abort"} :
          IF outcome = "abort"
          THEN /\ Raise
               /\ UNCHANGED << stored, state, res_i, loc, work, fifo, wopen,
                               lst, emitted >>
          ELSE /\ state' = DeleteEntry(state, loc.res)
               /\ stored' = state'
               /\ pc' = "down_loop"
               /\ NextResource
               /\ UNCHANGED result
    /\ UNCHANGED << mdl, opts, opened, resources_to_down, resources_to_up,
                    resources_vars, ran, last, repeat >>
    /\ UNCHANGED sessvars

\* The up loop starts before the down list is done.
DownsDone_early ==
    /\ pc = "down_loop"
    /\ "forget" \notin opts.flags
    /\ pc' = "up_loop"
    /\ res_i' = 1
    /\ resources_vars' = << >>
    /\ UNCHANGED << mdl, opts, stored, opened, state, result,
                    resources_to_down, resources_to_up, loc, work, fifo,
                    wopen, lst, emitted, ran, last, repeat >>
    /\ UNCHANGED sessvars

\* main, lines 1137-1151: the down list is done.
DownsDone ==
    /\ pc = "down_loop"
    /\ "forget" \notin opts.flags
    /\ res_i > Len(resources_to_down)
    /\ pc' = "up_loop"
    /\ res_i' = 1
    /\ resources_vars' = << >>
    /\ UNCHANGED << mdl, opts, stored, opened, state, result,
                    resources_to_down, resources_to_up, loc, work, fifo,
                    wopen, lst, emitted, ran, last, repeat >>
    /\ UNCHANGED sessvars

\* up_resource, from its start to the first script it runs or, on the
\* up-to-date branch, to its end.
\* The precheck is run also for a resource that has an entry.
Prechecked_existing(o, is_new, new_files) ==
    /\ "ignore_precheck" \notin o.flags
    /\ new_files.precheck["script.sh"] # EmptyText

\* up_resource, line 562: the condition under which the precheck is run.
Prechecked(o, is_new, new_files) ==
    /\ is_new
    /\ "ignore_precheck" \notin o.flags
    /\ new_files.precheck["script.sh"] # EmptyText

UpBegin ==
    /\ pc = "up_loop"
    /\ res_i <= Len(resources_to_up)
    /\ LET r == resources_to_up[res_i]
           d == mdl.data[r]
           new_files == Render(d, Imports(d, resources_vars))
           new_uc == add_dicts(new_files.common, new_files.up)
           new_deps == mdl.dependencies[r]
           is_new == r \notin DOMAIN state.resources
           e == IF is_new THEN << >> ELSE state.resources[r]
           dirty == Get(e, "dirty", TRUE)
           old_files == Get(e, "files", << >>)
           old_uc == add_dicts(Get(old_files, "common", << >>),
                               Get(old_files, "up", << >>))
           persisted == Get(ResourcesOf(stored), r, << >>)
           locals == [ res |-> r, is_new |-> is_new, old_files |-> old_files,
                       new_files |-> new_files,
                       had_entry |-> r \in DOMAIN ResourcesOf(stored),
                       stored_identity |->
                           Get(Get(Get(persisted, "files", << >>), "common", << >>),
                               "identity", None),
                       stored_checkpoint |-> Get(persisted, "checkpoint", None),
                       down_done |-> FALSE, up_exit |-> "none",
                       produced |-> << >> ]
       IN  IF KeyErrors(mdl, r, resources_vars) # {}
           THEN /\ Raise
                /\ \E err \in KeyErrors(mdl, r, resources_vars) : error' = err
                /\ UNCHANGED << state, stored, res_i, resources_vars, loc, work,
                                fifo, wopen, lst, emitted, ran >>
           ELSE IF Triggered(opts, d, dirty, new_uc, old_uc)
           THEN /\ loc' = locals
                /\ resources_vars' = Put(resources_vars, r, << >>)
                /\ UNCHANGED << result, res_i, error >>
                /\ IF IdentityChanged(opts, is_new, old_uc, new_uc)
                   THEN \* lines 539-557
                        /\ work' = [NoWork EXCEPT
                                      !.up = new_uc,
                                      !.down = add_dicts(Get(old_files, "common", << >>),
                                                         Get(old_files, "down", << >>))]
                        /\ state' = UpdateEntry(state, r, MarkDirty(e))
                        /\ stored' = state'
                        /\ ran' = ran \cup {<< "iddown", r >>}
                        /\ pc' = "id_down_script"
                        /\ UNCHANGED << fifo, wopen, lst, emitted >>
                   ELSE IF Prechecked(opts, is_new, new_files)
                   THEN \* lines 562-574
                        /\ work' = [NoWork EXCEPT
                                      !.up = new_uc,
                                      !.precheck = add_dicts(new_files.common,
                                                             new_files.precheck)]
                        /\ state' = UpdateEntry(state, r, MarkDirty(e))
                        /\ ran' = ran \cup {<< "precheck", r >>}
                        /\ pc' = "precheck_script"
                        /\ UNCHANGED << stored, fifo, wopen, lst, emitted >>
                   ELSE /\ work' = [NoWork EXCEPT !.up = new_uc,
                                      !.last_checkpoint =
                                          IF Get(e, "checkpoint", None) # None
                                             /\ "ignore_checkpoints" \notin opts.flags
                                          THEN e.checkpoint ELSE None]
                        /\ state' = UpdateEntry(state, r,
                              PreparedEntry(MarkDirty(e), d, new_files, new_deps))
                        /\ stored' = state'
                        /\ fifo' = << >>
                        /\ wopen' = TRUE
                        /\ lst' = "read"
                        /\ emitted' = 0
                        /\ ran' = ran \cup {<< "up", r >>}
                        /\ pc' = "up_script"
           ELSE \* lines 644-655
                /\ resources_vars' = Put(resources_vars, r, Get(e, "exports", << >>))
                /\ work' = [NoWork EXCEPT !.up = new_uc]
                /\ UNCHANGED << loc, fifo, wopen, lst, emitted, ran >>
                /\ IF ~check_products(r, d, Get(e, "exports", << >>),
                                      Get(e, "mementos", << >>))
                   THEN /\ Raise
                        /\ \E err \in check_products_errors(r, d,
                                          Get(e, "exports", << >>),
                                          Get(e, "mementos", << >>)) :
                              error' = err
                        /\ UNCHANGED << state, stored, res_i >>
                   ELSE /\ UNCHANGED error
                        /\ state' =
                              IF MetadataChanged(e, new_files, new_deps, d.tags)
                              THEN UpdateEntry(state, r,
                                      Put(Put(Put(e, "files", new_files),
                                          "deps", new_deps), "tags", d.tags))
                              ELSE state
                        /\ stored' =
                              IF MetadataChanged(e, new_files, new_deps, d.tags)
                              THEN state' ELSE stored
                        /\ res_i' = res_i + 1
                        /\ UNCHANGED << pc, result >>
    /\ UNCHANGED << mdl, opts, opened, resources_to_down, resources_to_up,
                    last, repeat >>
    /\ UNCHANGED << backend, lock, waited, rival >>

\* After the teardown up_resource is entered again from its start.
IdDownExit_restart ==
    /\ pc = "id_down_script"
    /\ pc' = "up_loop"
    /\ UNCHANGED << mdl, opts, stored, opened, state, result,
                    resources_to_down, resources_to_up, res_i, resources_vars,
                    loc, work, fifo, wopen, lst, emitted, ran, last, repeat >>
    /\ UNCHANGED sessvars

\* run_script(kind='down', confirm_bail=True) of the identity change returns
\* or raises; up_resource goes on from line 559.
IdDownExit ==
    /\ pc = "id_down_script"
    /\ \E outcome \in {"ok", "ignore", "abort"} :
          IF outcome = "abort"
          THEN /\ Raise
               /\ UNCHANGED << stored, state, loc, work, fifo, wopen, lst,
                               emitted, ran >>
          ELSE /\ loc' = [loc EXCEPT !.down_done = TRUE]
               /\ EnterUpScript(loc.res, state.resources[loc.res])
               /\ UNCHANGED result
    /\ UNCHANGED << mdl, opts, opened, resources_to_down, resources_to_up,
                    res_i, resources_vars, last, repeat >>
    /\ UNCHANGED sessvars

\* run_script(kind='precheck') returns or raises; up_resource goes on from
\* line 576.
\* The document in memory is written when the precheck fails.
PrecheckExit_written ==
    /\ pc = "precheck_script"
    /\ \E outcome \in {"ok", "fail"} :
          IF outcome = "fail"
          THEN /\ Raise
               /\ stored' = state
               /\ UNCHANGED << state, work, fifo, wopen, lst, emitted, ran >>
          ELSE /\ EnterUpScript(loc.res, state.resources[loc.res])
               /\ UNCHANGED result
    /\ UNCHANGED << mdl, opts, opened, resources_to_down, resources_to_up,
                    res_i, resources_vars, loc, last, repeat >>
    /\ UNCHANGED sessvars

PrecheckExit ==
    /\ pc = "precheck_script"
    /\ \E outcome \in {"ok", "fail"} :
          IF outcome = "fail"
          THEN /\ Raise
               /\ UNCHANGED << stored, state, work, fifo, wopen, lst,
                               emitted, ran >>
          ELSE /\ EnterUpScript(loc.res, state.resources[loc.res])
               /\ UNCHANGED result
    /\ UNCHANGED << mdl, opts, opened, resources_to_down, resources_to_up,
                    res_i, resources_vars, loc, last, repeat >>
    /\ UNCHANGED sessvars

\* The up script writes a line to the checkpoint fifo.
ScriptEmit ==
    /\ pc = "up_script"
    /\ emitted < MaxLines
    /\ fifo' = Append(fifo, Line(emitted + 1))
    /\ emitted' = emitted + 1
    /\ UNCHANGED << mdl, opts, stored, opened, state, pc, result,
                    resources_to_down, resources_to_up, res_i, resources_vars,
                    loc, work, wopen, lst, ran, last, repeat >>
    /\ UNCHANGED sessvars

\* up_resource, lines 597-606: the up script exits and main closes its end
\* of the fifo.  Status 0: main goes on to join the checkpoint thread.
\* Another status: run_script raises, and the join is not reached.
UpScriptExit ==
    /\ pc = "up_script"
    /\ wopen' = FALSE
    /\ \E status \in {"ok", "fail"} :
          /\ loc' = [loc EXCEPT !.up_exit = status]
          /\ IF status = "ok"
             THEN pc' = "join" /\ UNCHANGED result
             ELSE Raise
    /\ UNCHANGED << mdl, opts, stored, opened, state, resources_to_down,
                    resources_to_up, res_i, resources_vars, work, fifo, lst,
                    emitted, ran, last, repeat >>
    /\ UNCHANGED sessvars

\* checkpoint_thread_func, lines 589-591: a line is read and stored in the
\* entry in memory.
ListenerRead ==
    /\ lst = "read"
    /\ fifo # << >>
    /\ state' = UpdateEntry(state, loc.res,
                    Put(state.resources[loc.res], "checkpoint", Head(fifo)))
    /\ fifo' = Tail(fifo)
    /\ lst' = "write"
    /\ UNCHANGED << mdl, opts, stored, opened, pc, result, resources_to_down,
                    resources_to_up, res_i, resources_vars, loc, work, wopen,
                    emitted, ran, last, repeat >>
    /\ UNCHANGED sessvars

\* AwsStateStorage.write, line 70: assert self._opened
write_asserted(is_opened) == is_opened

\* checkpoint_thread_func, line 592: state.write() enters the backend, which
\* asserts that it is opened; the AssertionError ends the thread.
ListenerWrite ==
    /\ lst = "write"
    /\ lst' = IF write_asserted(opened) THEN "put" ELSE "dead"
    /\ UNCHANGED << mdl, opts, stored, opened, state, pc, result,
                    resources_to_down, resources_to_up, res_i, resources_vars,
                    loc, work, fifo, wopen, emitted, ran, last, repeat >>
    /\ UNCHANGED sessvars

\* AwsStateStorage.write, lines 72-75: the document is serialized and put;
\* nothing holds the main thread back meanwhile.
ListenerPut ==
    /\ lst = "put"
    /\ stored' = state
    /\ lst' = "read"
    /\ UNCHANGED << mdl, opts, opened, state, pc, result, resources_to_down,
                    resources_to_up, res_i, resources_vars, loc, work, fifo,
                    wopen, emitted, ran, last, repeat >>
    /\ UNCHANGED sessvars

\* checkpoint_thread_func, line 589: end of file, once every writer has
\* closed the fifo and every line is read; the thread ends.
ListenerEOF ==
    /\ lst = "read"
    /\ fifo = << >>
    /\ ~wopen
    /\ lst' = "done"
    /\ UNCHANGED << mdl, opts, stored, opened, state, pc, result,
                    resources_to_down, resources_to_up, res_i, resources_vars,
                    loc, work, fifo, wopen, emitted, ran, last, repeat >>
    /\ UNCHANGED sessvars

\* up_resource, lines 606-642: the checkpoint thread is joined, the products
\* are read and checked, the entry is committed and persisted.
UpJoin ==
    /\ pc = "join"
    /\ lst = "done"
    /\ LET r == loc.res
           d == mdl.data[r]
       IN  \E exports \in ProducedExports(d), mementos \in ProducedMementos(d) :
              /\ resources_vars' = Put(resources_vars, r, exports)
              /\ IF check_products(r, d, exports, mementos)
                 THEN /\ state' = UpdateEntry(state, r,
                             CommittedEntry(state.resources[r], exports, mementos))
                      /\ stored' = state'
                      /\ pc' = "up_loop"
                      /\ NextResource
                      /\ UNCHANGED << result, error >>
                 ELSE /\ Raise
                      /\ \E err \in check_products_errors(r, d, exports, mementos) :
                            error' = err
                      /\ loc' = [loc EXCEPT !.produced =
                                    [exports |-> exports, mementos |-> mementos]]
                      /\ UNCHANGED << stored, state, res_i, work, fifo,
                                      wopen, lst, emitted >>
    /\ UNCHANGED << mdl, opts, opened, resources_to_down, resources_to_up,
                    ran, last, repeat >>
    /\ UNCHANGED << backend, lock, waited, rival >>

\* main, lines 1152-1184: the up list is done.
UpsDone ==
    /\ pc = "up_loop"
    /\ res_i > Len(resources_to_up)
    /\ pc' = "closing"
    /\ UNCHANGED << mdl, opts, stored, opened, state, result,
                    resources_to_down, resources_to_up, res_i, resources_vars,
                    loc, work, fifo, wopen, lst, emitted, ran, last, repeat >>
    /\ UNCHANGED sessvars

\* The process is killed: its threads end wherever they are, the lock is
\* released, the backend keeps the document last written.
Kill ==
    /\ pc # "idle"
    /\ lock' = IF lock = "main" THEN "none" ELSE lock
    /\ error' = NoError
    /\ waited' = 0
    /\ UNCHANGED << backend, rival >>
    /\ last' = [ mdl |-> NoModel, opts |-> NoOptions, result |-> "killed",
                 runs |-> last.runs + 1,
                 interrupted |-> IF pc = "up_script" THEN loc.res ELSE None ]
    /\ mdl' = NoModel
    /\ opts' = NoOptions
    /\ opened' = FALSE
    /\ state' = << >>
    /\ pc' = "idle"
    /\ result' = "none"
    /\ resources_to_down' = << >>
    /\ resources_to_up' = << >>
    /\ res_i' = 0
    /\ resources_vars' = << >>
    /\ loc' = NoLoc
    /\ work' = NoWork
    /\ fifo' = << >>
    /\ wopen' = FALSE
    /\ lst' = "none"
    /\ emitted' = 0
    /\ ran' = {}
    /\ repeat' = FALSE
    /\ UNCHANGED stored

\* ------------------------------------------------------------------ runs

\* Invocations of the program, one after the other, at most.
MaxRuns == 2

DbData == ResourceData("v1", 1, FALSE, {"host"}, << >>)

AppData(identity, always_refresh) ==
    ResourceData(identity, 1, always_refresh, {}, [host |-> << "db", "host" >>])

\* The models of the runs: db alone, or db and app, which imports db's host,
\* with either identity, with or without always_refresh.
RunModels ==
    {MakeModel([r \in {"db"} |-> {}], [db |-> DbData])}
    \cup
    {MakeModel([r \in {"app", "db"} |-> {}],
               [app |-> AppData(identity, always_refresh), db |-> DbData]) :
        identity \in {"v1", "v2"}, always_refresh \in BOOLEAN}

\* The command lines of the runs: no filter, and one flag or none.
RunOptions ==
    {Options(Names, {}, flags) : flags \in {{}} \cup {{f} : f \in Flags}}

RunStart ==
    /\ pc = "idle"
    /\ last.runs < MaxRuns
    /\ \E m \in RunModels, o \in RunOptions : StartRun(m, o)

Init == Idle(<< >>)

Next ==
    \/ RunStart
    \/ Proceed
    \/ DownBegin
    \/ DownExit
    \/ DownsDone
    \/ UpBegin
    \/ IdDownExit
    \/ PrecheckExit
    \/ ScriptEmit
    \/ UpScriptExit
    \/ ListenerRead
    \/ ListenerWrite
    \/ ListenerPut
    \/ ListenerEOF
    \/ UpJoin
    \/ UpsDone
    \/ CloseSession
    \/ ProcessExit
    \/ Kill

Spec == Init /\ [][Next]_vars

\* ------------------------------------------------------------ sessions

\* A stored entry of a clean resource with the given deps.
StoredEntry(deps) ==
    [ dirty |-> FALSE, deps |-> deps, tags |-> Untagged, used_modes |-> {},
      files |-> << >>, exports |-> << >>, mementos |-> << >>,
      mementos_modes |-> << >>, message |-> None ]

\* Ticks after which the lock client gives up waiting for the lock.
MaxWait == 2

\* The timeout the caller would give: FileStateStorage.open(timeout=...),
\* and the constructor argument AwsStateStorage has commented out.
CallerTimeout == 1

\* What a start that opens no session leaves alone.
runvars == << stored, opened, state, resources_to_down, resources_to_up,
              res_i, resources_vars, loc, work, fifo, wopen, lst, emitted,
              ran, last, repeat >>

\* StateStorage.__enter__, line 35, on a FileStateStorage, which has open()
\* and no open_and_read(): AttributeError, before any lock is taken.
FileOpenFails(m, o) ==
    /\ pc = "idle"
    /\ backend = "file"
    /\ mdl' = m
    /\ opts' = o
    /\ result' = "fail"
    /\ error' = [ kind |-> "attribute", names |-> {"open_and_read"} ]
    /\ pc' = "exiting"
    /\ UNCHANGED << backend, lock, waited, rival >>
    /\ UNCHANGED runvars

\* AwsStateStorage.open_and_read, line 38: the lock is held by another
\* invocation, and acquire_lock starts to wait.
WaitForLock(m, o) ==
    /\ pc = "idle"
    /\ backend = "aws"
    /\ lock # "none"
    /\ mdl' = m
    /\ opts' = o
    /\ result' = "success"
    /\ waited' = 0
    /\ pc' = "acquiring"
    /\ UNCHANGED << backend, lock, rival, error >>
    /\ UNCHANGED runvars

\* acquire_lock goes on waiting: it is given no timeout by its caller, and
\* retries until the lock client's own retry timeout.
LockWait ==
    /\ pc = "acquiring"
    /\ lock # "none"
    /\ waited < MaxWait
    /\ waited' = waited + 1
    /\ UNCHANGED << mdl, opts, pc, result, backend, lock, rival, error >>
    /\ UNCHANGED runvars

\* acquire_lock gives up and raises; open_and_read and __enter__ pass the
\* error on, and the with block of main is not entered.
LockTimeout ==
    /\ pc = "acquiring"
    /\ lock # "none"
    /\ waited = MaxWait
    /\ result' = "fail"
    /\ error' = [ kind |-> "lock_timeout", names |-> {} ]
    /\ pc' = "exiting"
    /\ UNCHANGED << mdl, opts, backend, lock, waited, rival >>
    /\ UNCHANGED runvars

\* acquire_lock gets the lock that has become free, and the session opens.
LockAcquired ==
    /\ pc = "acquiring"
    /\ OpenSession(mdl, opts)

\* AwsStateStorage.open_and_read, lines 37-45: the lock is taken and the
\* object downloaded; json.load is about to reject it.
LoadBegin(m, o) ==
    /\ pc = "idle"
    /\ backend # "file"
    /\ backend = "aws" => lock = "none"
    /\ ~Loadable(stored)
    /\ lock' = acquire_lock(lock, backend, "main")
    /\ mdl' = m
    /\ opts' = o
    /\ result' = "success"
    /\ pc' = "loading"
    /\ UNCHANGED << backend, waited, rival, error >>
    /\ UNCHANGED runvars

\* AwsStateStorage.open_and_read, lines 56-60: read_cb raises, the lock is
\* released and the error passed on.
LoadFails ==
    /\ pc = "loading"
    /\ lock' = release_lock(lock, backend, "main")
    /\ result' = "fail"
    /\ error' = [ kind |-> "json", names |-> {} ]
    /\ pc' = "exiting"
    /\ UNCHANGED << mdl, opts, backend, waited, rival >>
    /\ UNCHANGED runvars

\* main, lines 955-985: the session opens on a document of another
\* workspace, and main raises before it selects anything.
OpenMismatch(m, o) ==
    /\ pc = "idle"
    /\ ~opened
    /\ "edit" \notin o.flags
    /\ backend # "file"
    /\ backend = "aws" => lock = "none"
    /\ Loadable(stored)
    /\ WorkspaceMismatch(stored, o)
    /\ lock' = acquire_lock(lock, backend, "main")
    /\ mdl' = m
    /\ opts' = o
    /\ opened' = TRUE
    /\ state' = stored
    /\ result' = "fail"
    /\ error' = [ kind |-> "workspace",
                 names |-> {Get(stored, "workspace", ""), o.workspace} ]
    /\ pc' = "closing"
    /\ UNCHANGED << stored, resources_to_down, resources_to_up, res_i,
                    resources_vars, loc, work, fifo, wopen, lst, emitted,
                    ran, last, repeat, backend, waited, rival >>

\* main, lines 1114-1115: the operator answers no to "Proceed?".
Abort ==
    /\ pc = "planned"
    /\ "pretend" \notin opts.flags
    /\ resources_to_down # << >> \/ resources_to_up # << >>
    /\ result' = "abort"
    /\ error' = [ kind |-> "abort", names |-> {} ]
    /\ pc' = "closing"
    /\ UNCHANGED << mdl, opts, backend, lock, waited, rival >>
    /\ UNCHANGED runvars

\* The document the other invocation writes: the one it loaded, with the
\* entry of a resource web of its own model.
RivalDocument(doc) ==
    UpdateEntry(LoadedState(doc, [workspace |-> ""]), "web", StoredEntry({}))

\* The other invocation opens its session: the lock, then the document.
RivalOpen ==
    /\ rival.pc = "idle"
    /\ backend # "file"
    /\ backend = "aws" => lock = "none"
    /\ Loadable(stored)
    /\ lock' = acquire_lock(lock, backend, "rival")
    /\ rival' = [ pc |-> "opened", data |-> stored, seen |-> stored ]
    /\ UNCHANGED << mdl, opts, pc, result, backend, waited, error >>
    /\ UNCHANGED runvars

\* The other invocation changes the document it loaded and writes it.
RivalWrite ==
    /\ rival.pc = "opened"
    /\ stored' = RivalDocument(rival.data)
    /\ rival' = [ pc |-> "written", data |-> stored', seen |-> stored' ]
    /\ UNCHANGED << mdl, opts, opened, state, pc, result, resources_to_down,
                    resources_to_up, res_i, resources_vars, loc, work, fifo,
                    wopen, lst, emitted, ran, last, repeat, backend, lock,
                    waited, error >>

\* The other invocation closes its session and ends.
RivalClose ==
    /\ rival.pc \in {"opened", "written"}
    /\ lock' = release_lock(lock, backend, "rival")
    /\ rival' = [ pc |-> "done", data |-> << >>, seen |-> << >> ]
    /\ UNCHANGED << mdl, opts, pc, result, backend, waited, error >>
    /\ UNCHANGED runvars

\* The model and the command line of the invocation: db alone, no option.
SessModels == {MakeModel([r \in {"db"} |-> {}], [db |-> DbData])}

SessOptions == {Options(Names, {}, {})}

\* The documents the invocation may find: none, one of workspace prod, one
\* that is not JSON.
SessStored == { << >>, [workspace |-> "prod", resources |-> << >>], Corrupt }

InitSess ==
    \E doc \in SessStored, b \in {"aws", "aws_unlocked", "file"} : IdleOn(doc, b)

\* The invocation starts, once.
SessStart ==
    /\ pc = "idle"
    /\ last.result = "none"
    /\ \E m \in SessModels, o \in SessOptions :
          \/ StartRun(m, o)
          \/ WaitForLock(m, o)
          \/ FileOpenFails(m, o)
          \/ LoadBegin(m, o)
          \/ OpenMismatch(m, o)

\* The steps of the invocation once it has started.
MainStep ==
    \/ LockWait
    \/ LockTimeout
    \/ LockAcquired
    \/ LoadFails
    \/ Abort
    \/ Proceed
    \/ DownBegin
    \/ DownExit
    \/ DownsDone
    \/ UpBegin
    \/ PrecheckExit
    \/ ScriptEmit
    \/ UpScriptExit
    \/ ListenerRead
    \/ ListenerWrite
    \/ ListenerPut
    \/ ListenerEOF
    \/ UpJoin
    \/ UpsDone
    \/ CloseSession
    \/ ProcessExit

NextSess == SessStart \/ MainStep \/ RivalOpen \/ RivalWrite \/ RivalClose

SpecSess == InitSess /\ [][NextSess]_vars

\* Scripts end, prompts are answered and threads are scheduled: a step of
\* the invocation that can be taken is taken.
SpecSessFair == SpecSess /\ WF_vars(MainStep)

\* ------------------------------------------------------------ products

\* A resource that declares the given exports and mementos.
WebData(exports, mementos) ==
    [ResourceData("v1", 1, FALSE, exports, << >>) EXCEPT !.mementos = mementos]

\* The models of the runs on products: web alone, declaring any of the
\* exports x and y and possibly the memento key.
ProdModels ==
    {MakeModel([r \in {"web"} |-> {}], [web |-> WebData(exports, mementos)]) :
        exports \in SUBSET {"x", "y"}, mementos \in SUBSET {"key"}}

ProdStart ==
    /\ pc = "idle"
    /\ last.runs < MaxRuns
    /\ \E m \in ProdModels : StartRun(m, Options(Names, {}, {}))

InitProd == Idle(<< >>)

NextProd ==
    \/ ProdStart
    \/ Proceed
    \/ DownsDone
    \/ UpBegin
    \/ PrecheckExit
    \/ ScriptEmit
    \/ UpScriptExit
    \/ ListenerRead
    \/ ListenerWrite
    \/ ListenerPut
    \/ ListenerEOF
    \/ UpJoin
    \/ UpsDone
    \/ CloseSession
    \/ ProcessExit

SpecProd == InitProd /\ [][NextProd]_vars

\* ------------------------------------------------------------ model errors

\* db, which exports host.
FinDb == ResourceData("v1", 1, FALSE, {"host"}, << >>)

\* app with the given imports and used modes, exporting host.
FinApp(imports, used_modes) ==
    [ResourceData("v1", 1, FALSE, {"host"}, imports) EXCEPT !.used_modes = used_modes]

\* The models of the runs on model errors: db and app, where app depends on
\* nothing, on db, on itself or on web, which no model defines, db depends on
\* nothing or on app, and app imports nothing, a variable db exports or not,
\* a variable of web, or a variable of its own, and uses the mode env or the
\* mode region, which no model defines.
FinModels ==
    {MakeModel([app |-> app_depends, db |-> db_depends],
               [app |-> FinApp(imports, used_modes), db |-> FinDb]) :
        app_depends \in {{}, {"db"}, {"app"}, {"web"}},
        db_depends \in {{}, {"app"}},
        imports \in {<< >>, [v |-> << "db", "host" >>], [v |-> << "db", "port" >>],
                     [v |-> << "web", "host" >>], [v |-> << "app", "host" >>]},
        used_modes \in {{"env"}, {"region"}}}

FinStart ==
    /\ pc = "idle"
    /\ last.runs < MaxRuns
    /\ \E m \in FinModels :
          \/ StartRun(m, Options(Names, {}, {}))
          \/ RejectModel(m, Options(Names, {}, {}))

InitFin == Idle(<< >>)

NextFin ==
    \/ FinStart
    \/ Proceed
    \/ DownsDone
    \/ UpBegin
    \/ PrecheckExit
    \/ ScriptEmit
    \/ UpScriptExit
    \/ ListenerRead
    \/ ListenerWrite
    \/ ListenerPut
    \/ ListenerEOF
    \/ UpJoin
    \/ UpsDone
    \/ CloseSession
    \/ ProcessExit

SpecFin == InitFin /\ [][NextFin]_vars

\* ------------------------------------------------------------- workspace

\* main, lines 955-958, with --edit: the session opens and the loaded document
\* goes to the editor.
OpenForEdit(m, o) ==
    /\ pc = "idle"
    /\ ~opened
    /\ "edit" \in o.flags
    /\ ModelErrors(m) = {}
    /\ Loadable(stored)
    /\ backend # "file"
    /\ backend = "aws" => lock = "none"
    /\ lock' = acquire_lock(lock, backend, "main")
    /\ mdl' = m
    /\ opts' = o
    /\ opened' = TRUE
    /\ state' = stored
    /\ result' = "success"
    /\ ran' = {}
    /\ repeat' = FALSE
    /\ pc' = "editing"
    /\ UNCHANGED << stored, resources_to_down, resources_to_up, res_i,
                    resources_vars, loc, work, fifo, wopen, lst, emitted,
                    last, backend, waited, rival, error >>

\* The documents the operator may save from the editor.
EditedDocuments ==
    { << >>, [resources |-> << >>],
      [workspace |-> "prod", resources |-> << >>],
      [workspace |-> "dev", resources |-> << >>] }

\* main, lines 961-976: the operator saves a document, which replaces the
\* loaded one and is written.
EditSave ==
    /\ pc = "editing"
    /\ \E doc \in EditedDocuments :
          /\ state' = doc
          /\ stored' = doc
    /\ pc' = "edited"
    /\ UNCHANGED << mdl, opts, opened, result, resources_to_down,
                    resources_to_up, res_i, resources_vars, loc, work, fifo,
                    wopen, lst, emitted, ran, last, repeat >>
    /\ UNCHANGED sessvars

\* main, lines 963-964: the operator leaves the editor without saving and
\* goes on with the unedited state, or aborts.
EditKeep ==
    /\ pc = "editing"
    /\ \/ /\ pc' = "edited"
          /\ UNCHANGED << result, error >>
       \/ /\ pc' = "closing"
          /\ result' = "abort"
          /\ error' = [ kind |-> "abort", names |-> {} ]
    /\ UNCHANGED << mdl, opts, stored, opened, state, resources_to_down,
                    resources_to_up, res_i, resources_vars, loc, work, fifo,
                    wopen, lst, emitted, ran, last, repeat >>
    /\ UNCHANGED << backend, lock, waited, rival >>

\* main, lines 978-1110, after the editor: the workspace check on the
\* document in memory, then the selection.
AfterEdit ==
    /\ pc = "edited"
    /\ IF WorkspaceMismatch(state, opts)
       THEN /\ result' = "fail"
            /\ error' = [ kind |-> "workspace",
                          names |-> {Get(state, "workspace", ""), opts.workspace} ]
            /\ pc' = "closing"
            /\ UNCHANGED << state, resources_to_down, resources_to_up >>
       ELSE /\ state' = LoadedState(state, opts)
            /\ resources_to_down' =
                   SelectDown(mdl, opts,
                              process_aliases(ResourcesOf(state), mdl.aliases))
            /\ resources_to_up' = SelectUp(mdl, opts)
            /\ pc' = "planned"
            /\ UNCHANGED << result, error >>
    /\ UNCHANGED << mdl, opts, stored, opened, res_i, resources_vars, loc,
                    work, fifo, wopen, lst, emitted, ran, last, repeat >>
    /\ UNCHANGED << backend, lock, waited, rival >>

\* The command lines of the runs on workspaces: a workspace, with --edit or
\* without.
WsOptions ==
    {[Options(Names, {}, flags) EXCEPT !.workspace = w] :
        w \in {"prod", "dev"}, flags \in {{}, {"edit"}}}

\* The documents the first run may find: none, or one of workspace prod.
WsStored == { << >>, [workspace |-> "prod", resources |-> << >>] }

InitWs == \E doc \in WsStored : Idle(doc)

WsStart ==
    /\ pc = "idle"
    /\ last.runs < MaxRuns
    /\ \E m \in SessModels, o \in WsOptions :
          \/ StartRun(m, o)
          \/ OpenMismatch(m, o)
          \/ OpenForEdit(m, o)

NextWs ==
    \/ WsStart
    \/ EditSave
    \/ EditKeep
    \/ AfterEdit
    \/ Abort
    \/ Proceed
    \/ DownsDone
    \/ UpBegin
    \/ PrecheckExit
    \/ ScriptEmit
    \/ UpScriptExit
    \/ ListenerRead
    \/ ListenerWrite
    \/ ListenerPut
    \/ ListenerEOF
    \/ UpJoin
    \/ UpsDone
    \/ CloseSession
    \/ ProcessExit

SpecWs == InitWs /\ [][NextWs]_vars

\* ------------------------------------------------------------ lifecycle

\* The models of the runs on the lifecycle of the entries: db alone, app
\* alone and importing nothing, or db and app, which imports db's host, with
\* either identity.
LifeModels ==
    {MakeModel([r \in {"db"} |-> {}], [db |-> DbData]),
     MakeModel([r \in {"app"} |-> {}], [app |-> PlainData])}
    \cup
    {MakeModel([r \in {"app", "db"} |-> {}],
               [app |-> AppData(identity, FALSE), db |-> DbData]) :
        identity \in {"v1", "v2"}}

\* The command lines of these runs: no filter, and one of --down, --forget
\* and --pretend or none, or --down with --forget.
LifeOptions ==
    {Options(Names, {}, flags) :
        flags \in {{}, {"down"}, {"forget"}, {"pretend"}, {"down", "forget"}}}

LifeStart ==
    /\ pc = "idle"
    /\ last.runs < MaxRuns
    /\ \E m \in LifeModels, o \in LifeOptions : StartRun(m, o)

InitLife == Idle(<< >>)

NextLife ==
    \/ LifeStart
    \/ Pretend
    \/ Proceed
    \/ Forget
    \/ DownBegin
    \/ DownExit
    \/ DownsDone
    \/ UpBegin
    \/ IdDownExit
    \/ PrecheckExit
    \/ ScriptEmit
    \/ UpScriptExit
    \/ ListenerRead
    \/ ListenerWrite
    \/ ListenerPut
    \/ ListenerEOF
    \/ UpJoin
    \/ UpsDone
    \/ CloseSession
    \/ ProcessExit
    \/ Kill

SpecLife == InitLife /\ [][NextLife]_vars

\* ----------------------------------------------------------------- renames
\* Runs in which the model renames resources with aliases: db becomes web,
\* with the same files or with a new identity, and models whose alias
\* names a resource that is stored next to the resource it is an alias of.

\* A model file defining the resources of data, app depending on what the
\* database is called, and the alias table aliases.
AliasModel(data, database, aliases) ==
    WithAliases(
        MakeModel([r \in DOMAIN data |->
                      IF r = "app" /\ database \in DOMAIN data
                      THEN {database} ELSE {}],
                  data),
        aliases)

AliasModels ==
    { AliasModel([app |-> PlainData, db |-> DbData], "db", << >>),
      AliasModel([app |-> PlainData, web |-> DbData], "web", [db |-> "web"]),
      AliasModel([web |-> ResourceData("v2", 1, FALSE, {"host"}, << >>)],
                 "web", [db |-> "web"]),
      AliasModel([db |-> DbData], "db", [app |-> "db"]),
      AliasModel([app |-> PlainData], "db", [db |-> "app"]) }

AliasOptions ==
    {Options(Names, {}, flags) : flags \in {{}, {"pretend"}, {"down"}}}
    \cup {Options({"web"}, {}, {"down"})}

AliasStart ==
    /\ pc = "idle"
    /\ last.runs < MaxRuns
    /\ \E m \in AliasModels, o \in AliasOptions : StartRun(m, o)

InitAlias == Idle(<< >>)

NextAlias ==
    \/ AliasStart
    \/ Pretend
    \/ Proceed
    \/ DownBegin
    \/ DownExit
    \/ DownsDone
    \/ UpBegin
    \/ IdDownExit
    \/ PrecheckExit
    \/ ScriptEmit
    \/ UpScriptExit
    \/ ListenerRead
    \/ ListenerWrite
    \/ ListenerPut
    \/ ListenerEOF
    \/ UpJoin
    \/ UpsDone
    \/ CloseSession
    \/ ProcessExit
    \/ Kill

SpecAlias == InitAlias /\ [][NextAlias]_vars

\* ---------------------------------------------------------- tag expressions
\* tagexpr.py.  An expression is modelled after the lexer, as the sequence
\* of its tokens: plain tags, the constants, the operators and the brackets.

\* Tags that expressions and resources use.
TagNames == {"a", "b"}

\* The operator table handed to infixNotation with & and | exchanged.
Operators_or_first ==
    << [op |-> "!", arity |-> 1], [op |-> "|", arity |-> 2], [op |-> "&", arity |-> 2] >>

\* tagexpr.py, lines 16-20: the operator table of infixNotation, from the
\* level that binds tightest; all are right associative.
Operators ==
    << [op |-> "!", arity |-> 1], [op |-> "&", arity |-> 2], [op |-> "|", arity |-> 2] >>

\* What a parser element gives on a token sequence: no match, or the tokens
\* it made and the input left over.
NoParse == [ok |-> FALSE, ast |-> << >>, rest |-> << >>]

Parsed(ast, rest) == [ok |-> TRUE, ast |-> ast, rest |-> rest]

\* tagexpr.py, lines 10-12: _term = _tag | _const with their parse actions
_term(s) ==
    IF s = << >> THEN NoParse
    ELSE IF s[1] \in TagNames THEN Parsed(<< "$", s[1] >>, Tail(s))
    ELSE IF s[1] \in {"0", "1"} THEN Parsed(<< s[1] >>, Tail(s))
    ELSE NoParse

\* tagexpr.py, lines 4-5: the operator is moved in front of the left operand
_swap_infix(t) == << t[2], t[1], t[3] >>

RECURSIVE Level(_, _)
\* pyparsing.infixNotation on the table above.  Level 0 is
\* baseExpr | (lpar + ret + rpar); level k is thisExpr = matchExpr | lastExpr
\* of the k-th operator: for a unary operator matchExpr is
\* Group(op + thisExpr), for a binary one
\* Group(lastExpr + OneOrMore(op + thisExpr)) with the parse action.
Level(k, s) ==
    IF k = 0
    THEN LET t == _term(s)
             e == Level(Len(Operators), Tail(s))
         IN  IF t.ok THEN t
             ELSE IF s # << >> /\ s[1] = "(" /\ e.ok
                        /\ e.rest # << >> /\ e.rest[1] = ")"
             THEN Parsed(e.ast, Tail(e.rest))
             ELSE NoParse
    ELSE IF Operators[k].arity = 1
    THEN LET n == Level(k, Tail(s))
         IN  IF s # << >> /\ s[1] = Operators[k].op /\ n.ok
             THEN Parsed(<< s[1], n.ast >>, n.rest)
             ELSE Level(k - 1, s)
    ELSE LET l == Level(k - 1, s)
             r == Level(k, Tail(l.rest))
         IN  IF l.ok /\ l.rest # << >> /\ l.rest[1] = Operators[k].op /\ r.ok
             THEN Parsed(_swap_infix(<< l.ast, l.rest[1], r.ast >>), r.rest)
             ELSE l

\* _expr.parseString(expr, parseAll=True)
parseString(expr) ==
    LET p == Level(Len(Operators), expr)
    IN  IF p.ok /\ p.rest = << >> THEN p ELSE NoParse

\* compile, lines 24-27: ParseException, re-raised as RuntimeError
ParseException(expr) == ~parseString(expr).ok

RECURSIVE recurse(_, _)
\* compile.evaluate.recurse, lines 30-44; a node of any other kind is the
\* assert 0 of line 44.
recurse(ast, tags) ==
    CASE ast[1] = "$" -> ast[2] \in tags
      [] ast[1] = "0" -> FALSE
      [] ast[1] = "1" -> TRUE
      [] ast[1] = "!" -> ~recurse(ast[2], tags)
      [] ast[1] = "&" -> recurse(ast[2], tags) /\ recurse(ast[3], tags)
      [] ast[1] = "|" -> recurse(ast[2], tags) \/ recurse(ast[3], tags)

\* compile(expr)(tags)
evaluate(expr, tags) == recurse(parseString(expr).ast, tags)

\* make_tags_matcher(exprs)(tags), lines 409-416, for a non-empty exprs
make_tags_matcher(exprs, tags) ==
    \E i \in DOMAIN exprs : evaluate(exprs[i], tags)

\* Longest expression given, in tokens.
MaxTokens == 5

\* Longest expression given that may hold any token, in tokens.
MaxBracketed == 4

\* Longest expression given together with another one, in tokens.
MaxShared == 2

Tokens == TagNames \cup {"0", "1", "!", "&", "|", "(", ")"}

\* Expressions with one bracketed operation next to a third operand.
Grouped ==
    LET atoms == TagNames \cup {"0", "1"}
    IN  UNION {{ << "(", x, o1, y, ")", o2, z >>, << x, o1, "(", y, o2, z, ")" >> } :
                  x \in atoms, y \in atoms, z \in atoms,
                  o1 \in {"&", "|"}, o2 \in {"&", "|"}}

\* The tags of the resources the filter is applied to.
TagsOfName == [app |-> {"a"}, db |-> {"a", "b"}, web |-> {"b"}]

\* --tags as given: one expression of any tokens, one longer expression
\* without brackets and without the constant 1, one with a bracketed
\* operation, or two short expressions.
TagInputs ==
    \/ \E k \in 0..MaxBracketed : \E e \in [1..k -> Tokens] :
          opts = [NoOptions EXCEPT !.tag_exprs = << e >>]
    \/ \E k \in 0..MaxTokens :
          \E e \in [1..k -> TagNames \cup {"0", "!", "&", "|"}] :
             opts = [NoOptions EXCEPT !.tag_exprs = << e >>]
    \/ \E e \in Grouped : opts = [NoOptions EXCEPT !.tag_exprs = << e >>]
    \/ \E k1 \in 0..MaxShared, k2 \in 0..MaxShared :
          \E e1 \in [1..k1 -> TagNames \cup {"!"}],
             e2 \in [1..k2 -> TagNames \cup {"!"}] :
             opts = [NoOptions EXCEPT !.tag_exprs = << e1, e2 >>]

InitTags ==
    /\ TagInputs
    /\ mdl = NoModel
    /\ stored = << >>
    /\ opened = FALSE
    /\ state = << >>
    /\ pc = "idle"
    /\ result = "none"
    /\ resources_to_down = << >>
    /\ resources_to_up = << >>
    /\ res_i = 0
    /\ resources_vars = << >>
    /\ loc = NoLoc
    /\ work = NoWork
    /\ fifo = << >>
    /\ wopen = FALSE
    /\ lst = "none"
    /\ emitted = 0
    /\ ran = {}
    /\ last = NoLast
    /\ repeat = FALSE
    /\ backend = "aws"
    /\ lock = "none"
    /\ waited = 0
    /\ rival = NoRival
    /\ error = NoError

\* main, line 944: the expressions do not all compile; the invocation ends
\* with the error.
TagsRejected ==
    /\ pc = "idle"
    /\ \E i \in DOMAIN opts.tag_exprs : ParseException(opts.tag_exprs[i])
    /\ error' = [ kind |-> "tag expression",
                  names |-> {i \in DOMAIN opts.tag_exprs :
                                ParseException(opts.tag_exprs[i])} ]
    /\ result' = "fail"
    /\ pc' = "exiting"
    /\ UNCHANGED << mdl, opts, stored, opened, state, resources_to_down,
                    resources_to_up, res_i, resources_vars, loc, work, fifo,
                    wopen, lst, emitted, ran, last, repeat, backend, lock,
                    waited, rival >>

\* main, lines 944 and 1028-1032: the expressions compile, and the filter
\* is kept as the names it matches.
TagsCompiled ==
    /\ pc = "idle"
    /\ \A i \in DOMAIN opts.tag_exprs : ~ParseException(opts.tag_exprs[i])
    /\ opts' = [opts EXCEPT !.tags =
                   {n \in Names : make_tags_matcher(opts.tag_exprs, TagsOfName[n])}]
    /\ pc' = "compiled"
    /\ UNCHANGED << mdl, stored, opened, state, result, resources_to_down,
                    resources_to_up, res_i, resources_vars, loc, work, fifo,
                    wopen, lst, emitted, ran, last, repeat >>
    /\ UNCHANGED sessvars

NextTags == TagsRejected \/ TagsCompiled

SpecTags == InitTags /\ [][NextTags]_vars

\* ------------------------------------------- the selection, on any graphs

\* Acyclic dependency graphs over the resources S, each resource depending
\* on names of T.
Graphs(S, T) ==
    {g \in [S -> SUBSET T] :
        (\A r \in S : r \notin g[r]) /\ ~CircularDependency(g)}

\* Finalized models over any set of resources, with any acyclic graph.
SelModels ==
    UNION { {MakeModel(g, [r \in S |-> PlainData]) : g \in Graphs(S, S)} :
            S \in SUBSET Names }

\* State documents with any existing resources and any acyclic stored graph;
\* a stored dependency may name a resource that does not exist any more.
SelStored ==
    UNION { {[workspace |-> "", resources |-> [r \in S |-> StoredEntry(g[r])]] :
                g \in Graphs(S, Names)} : S \in SUBSET Names }

SelOptions ==
    {Options(only, skip, flags \cup {"pretend"}) :
        only \in SUBSET Names, skip \in SUBSET Names, flags \in SUBSET {"down"}}

InitSel == \E doc \in SelStored : Idle(doc)

\* One pretended run per document.  Over a document with resources it reads
\* the stored graph, and its model has no dependency edges; over a document
\* without resources its model has any graph.
SelStart ==
    /\ pc = "idle"
    /\ last.result = "none"
    /\ \E m \in SelModels, o \in SelOptions :
        /\ (ResourcesOf(stored) # << >>) =>
               \A r \in m.resources : m.dependencies[r] = {}
        /\ StartRun(m, o)

NextSel == SelStart \/ Pretend \/ CloseSession \/ ProcessExit

SpecSel == InitSel /\ [][NextSel]_vars

\* ------------------------------------------------- claims on the selection

\* Dependency paths of graph g: sequences of names, each depending directly
\* on the next.
DepPaths(g) ==
    {p \in UNION {[1..n -> DOMAIN g \cup UNION {g[r] : r \in DOMAIN g}] :
                     n \in 2..(Cardinality(Names) + 1)} :
        \A i \in 1..(Len(p) - 1) : p[i] \in DOMAIN g /\ p[i + 1] \in g[p[i]]}

\* The pairs << r, d >> with r depending on d in g, directly or through
\* other resources.
DependsOnPairs(g) == {<< p[1], p[Len(p)] >> : p \in DepPaths(g)}

TransitiveDeps(g, r) ==
    LET pairs == DependsOnPairs(g) IN {d \in Names : << r, d >> \in pairs}

TransitiveDependents(g, r) ==
    LET pairs == DependsOnPairs(g) IN {x \in Names : << x, r >> \in pairs}

\* The lists of the running invocation are computed.
Planned == pc # "idle"

UpRun == Planned /\ "down" \notin opts.flags

UpList == ToSet(resources_to_up)

DownList == ToSet(resources_to_down)

StoredGraph == existing_dependencies(ResourcesOf(stored))

Position(seq, n) == CHOOSE i \in 1..Len(seq) : seq[i] = n

\* C3 as stated: in an up run, for every resource that satisfies the include
\* filter the final up list contains every transitive dependency of it.
C3_Original ==
    UpRun =>
        \A r \in mdl.resources :
            is_included(opts, r) =>
                TransitiveDeps(mdl.dependencies, r) \subseteq UpList

\* C3 as amended: in an up run, every resource that satisfies the include
\* filter, is not excluded and does not transitively depend on an excluded
\* resource is in the final up list together with every transitive
\* dependency of it.
C3_UpSelection ==
    UpRun =>
        \A r \in mdl.resources :
            ( /\ is_included(opts, r)
              /\ ~is_excluded(opts, r)
              /\ \A d \in TransitiveDeps(mdl.dependencies, r) : ~is_excluded(opts, d) )
            => ({r} \cup TransitiveDeps(mdl.dependencies, r)) \subseteq UpList

\* An included resource is in the up list with an indirect dependency that
\* the include filter does not match.
C3_Witness ==
    /\ UpRun
    /\ \E r \in mdl.resources :
          /\ is_included(opts, r)
          /\ r \in UpList
          /\ \E d \in TransitiveDeps(mdl.dependencies, r) :
                /\ d \notin mdl.dependencies[r]
                /\ ~is_included(opts, d)
                /\ d \in UpList

\* C4 as stated: for every down candidate that satisfies the include filter
\* the final down list contains every transitive dependent of it, by the
\* stored deps.
C4_Original ==
    Planned =>
        \A r \in DownCandidates(mdl, opts, ResourcesOf(stored)) :
            is_included(opts, r) =>
                TransitiveDependents(StoredGraph, r) \subseteq DownList

\* C4 as amended: every down candidate that satisfies the include filter, is
\* not excluded and has no excluded transitive dependent is in the final
\* down list together with every transitive dependent of it, by the stored
\* deps.
C4_DownSelection ==
    Planned =>
        \A r \in DownCandidates(mdl, opts, ResourcesOf(stored)) :
            ( /\ is_included(opts, r)
              /\ ~is_excluded(opts, r)
              /\ \A x \in TransitiveDependents(StoredGraph, r) : ~is_excluded(opts, x) )
            => ({r} \cup TransitiveDependents(StoredGraph, r)) \subseteq DownList

\* A stale resource is brought down with an indirect dependent that is
\* still defined in the model and that the include filter does not match.
C4_Witness ==
    /\ Planned
    /\ "down" \notin opts.flags
    /\ \E r \in DownCandidates(mdl, opts, ResourcesOf(stored)) :
          /\ is_included(opts, r)
          /\ r \in DownList
          /\ \E x \in TransitiveDependents(StoredGraph, r) :
                /\ r \notin StoredGraph[x]
                /\ x \in mdl.resources
                /\ ~is_included(opts, x)
                /\ x \in DownList

\* C5: a resource matching the exclude filter is in neither list; no
\* resource that transitively depends on an excluded resource (model graph)
\* is in the up list; no resource that an excluded resource transitively
\* depends on (stored graph) is in the down list.
C5_ExclusionProtects ==
    Planned =>
        \A x \in Names :
            is_excluded(opts, x) =>
                /\ x \notin UpList
                /\ x \notin DownList
                /\ TransitiveDependents(mdl.dependencies, x) \cap UpList = {}
                /\ TransitiveDeps(StoredGraph, x) \cap DownList = {}

\* An excluded resource keeps an included dependent of it out of an up list
\* that holds another resource.
C5_Witness ==
    /\ UpRun
    /\ UpList # {}
    /\ \E x \in mdl.resources :
          /\ is_excluded(opts, x)
          /\ \E r \in TransitiveDependents(mdl.dependencies, x) :
                is_included(opts, r) /\ r \notin UpList

\* C6: in the final up list every resource appears after each of its direct
\* and transitive dependencies that is in the list, and no resource appears
\* twice.
C6_UpOrdering ==
    Planned =>
        /\ Cardinality(UpList) = Len(resources_to_up)
        /\ \A r \in UpList :
              \A d \in TransitiveDeps(mdl.dependencies, r) \cap UpList :
                  Position(resources_to_up, d) < Position(resources_to_up, r)

\* The up list holds a chain of three resources, and the order of the names
\* is not the order of the chain.
C6_Witness ==
    /\ Planned
    /\ Len(resources_to_up) = 3
    /\ resources_to_up[1] \in mdl.dependencies[resources_to_up[2]]
    /\ resources_to_up[2] \in mdl.dependencies[resources_to_up[3]]
    /\ resources_to_up # NameOrder

\* C7: in the final down list every resource appears before each resource
\* it depends on by the stored deps, directly or transitively, and no
\* resource appears twice.
C7_DownOrdering ==
    Planned =>
        /\ Cardinality(DownList) = Len(resources_to_down)
        /\ \A r \in DownList :
              \A d \in TransitiveDeps(StoredGraph, r) \cap DownList :
                  Position(resources_to_down, r) < Position(resources_to_down, d)

\* The down list holds a chain of three resources, dependents first, and
\* the order of the names is not the order of the chain.
C7_Witness ==
    /\ Planned
    /\ Len(resources_to_down) = 3
    /\ resources_to_down[2] \in StoredGraph[resources_to_down[1]]
    /\ resources_to_down[3] \in StoredGraph[resources_to_down[2]]
    /\ resources_to_down # NameOrder

\* ------------------------------------------------------ claims on the runs

\* The entry of resource r in the document the backend holds.
Persisted(r) == Get(ResourcesOf(stored), r, << >>)

\* No resource of the running model sets always_refresh.
NoAlwaysRefresh == \A r \in mdl.resources : ~mdl.data[r].always_refresh

\* The up loop of the running invocation is past resource r.
UpLoopPast(r) ==
    /\ pc = "up_loop"
    /\ \E i \in 1..(res_i - 1) : resources_to_up[i] = r

C2_CrashSafety ==
    /\ pc = "up_script" =>
          /\ loc.res \in DOMAIN ResourcesOf(stored)
          /\ Get(Persisted(loc.res), "dirty", FALSE) = TRUE
          /\ "exports" \notin DOMAIN Persisted(loc.res)
    /\ (last.interrupted # None /\ UpLoopPast(last.interrupted)) =>
          << "up", last.interrupted >> \in ran

\* The up script of a resource runs again in the run after the one that was
\* killed during the up script of that resource.
C2_Witness ==
    /\ pc = "up_script"
    /\ last.interrupted = loc.res

\* C8: when the up script of a resource starts whose entry held another
\* identity than the newly rendered one, and ignore_identity_change is not
\* set, a down script has run on the old stored common and down files and has
\* completed or was overridden, and the up directory holds the new files.
C8_IdentityChange ==
    ( /\ pc = "up_script"
      /\ loc.had_entry
      /\ loc.stored_identity # loc.new_files.common.identity
      /\ "ignore_identity_change" \notin opts.flags )
    => /\ loc.down_done
       /\ << "iddown", loc.res >> \in ran
       /\ work.down = add_dicts(loc.old_files.common, loc.old_files.down)
       /\ work.down.identity = loc.stored_identity
       /\ work.up = add_dicts(loc.new_files.common, loc.new_files.up)

\* The up script of a resource whose identity changed is running.
C8_Witness ==
    /\ pc = "up_script"
    /\ loc.had_entry
    /\ loc.stored_identity = "v1"
    /\ loc.new_files.common.identity = "v2"
    /\ "ignore_identity_change" \notin opts.flags
    /\ loc.down_done

\* The up script has just been started: it has written nothing yet.
UpScriptStarts == pc = "up_script" /\ emitted = 0 /\ fifo = << >>

\* C9: if the persisted entry of a resource held checkpoint c when its up
\* transition was triggered and ignore_checkpoints is not set, then when the
\* up script starts the up directory holds last-checkpoint with content c,
\* and the persisted entry holds no checkpoint.
C9_CheckpointResume ==
    ( /\ UpScriptStarts
      /\ loc.stored_checkpoint # None
      /\ "ignore_checkpoints" \notin opts.flags )
    => /\ work.last_checkpoint = loc.stored_checkpoint
       /\ "checkpoint" \notin DOMAIN Persisted(loc.res)

\* An up script starts over an entry that held the second checkpoint line.
C9_Witness ==
    /\ UpScriptStarts
    /\ loc.stored_checkpoint = Line(2)
    /\ "ignore_checkpoints" \notin opts.flags
    /\ work.last_checkpoint = Line(2)

\* C10, as stated: if an up script has written checkpoint lines l1..ln and
\* then failed, the persisted document holds checkpoint = ln for that
\* resource when the run ends.
C10_CheckpointSurvival ==
    ( /\ pc = "exiting"
      /\ lst \in {"done", "dead"}
      /\ loc.up_exit = "fail"
      /\ emitted >= 1 )
    => Get(Persisted(loc.res), "checkpoint", None) = Line(emitted)

\* C11, as stated: the checkpoint thread of a resource has consumed every
\* line and has ended before the up action is treated as finished: before
\* the exports are read, before an error is propagated, before another
\* resource is processed.
C11_ListenerJoin ==
    pc \notin {"up_script", "join"} => lst \in {"none", "done"}

\* C12, as stated: every change of the persisted document is made while the
\* session is opened (the lock held), by the main thread or by the
\* checkpoint thread.
C12_LockCoversWrites == [][stored' # stored => opened]_vars

\* ---------------------------------------------------- claims on sessions

\* The other invocation holds an open session.
RivalOpened == rival.pc \in {"opened", "written"}

\* C13, as stated, for the backend that has a lock: of two invocations on
\* the same storage at most one holds an open session, and the document an
\* invocation loaded or wrote last is not changed by the other one before
\* it closes.
C13_MutualExclusion ==
    backend = "aws" =>
        /\ ~(opened /\ RivalOpened)
        /\ RivalOpened => stored = rival.seen

\* C14: a session that acquired the lock eventually releases it, whatever
\* way the invocation ends.
C14_LockRelease == (lock = "main") ~> (lock # "main")

\* An invocation that failed while it held the lock has ended, and the lock
\* is free for the other one.
C14_Witness ==
    /\ backend = "aws"
    /\ pc = "exiting"
    /\ result = "fail"
    /\ error.kind \in {"json", "workspace"}
    /\ lock # "main"

\* C15, as stated: an invocation that waits for the lock does not wait
\* longer than the timeout its caller gave, and when it gives up it has
\* waited that long and has neither opened the session nor read the
\* document.
C15_LockTimeout ==
    /\ pc = "acquiring" => waited <= CallerTimeout
    /\ error.kind = "lock_timeout" =>
          /\ waited = CallerTimeout
          /\ ~opened
          /\ state = << >>

\* The names on which the produced and the declared sets differ.
Offending(declared, produced) ==
    (declared \ DOMAIN produced) \cup (DOMAIN produced \ declared)

\* The products check after the up script of loc.res has failed.
ProductsRejected == loc.produced # << >>

\* C16: after an up script has exited with status 0, the up transition fails
\* with an error that names the resource and a name on which the produced and
\* the declared exports or mementos differ, and leaves the entry dirty, if the
\* sets differ; when the transition succeeds the produced exports and mementos
\* are the ones it commits, and their names are exactly the declared ones.
C16_ExportContract ==
    /\ [](ProductsRejected =>
            LET d == mdl.data[loc.res]
            IN  /\ result = "fail"
                /\ error.resource = loc.res
                /\ error.names # {}
                /\ error.names \subseteq
                       IF error.of = "variable"
                       THEN Offending(d.exports, loc.produced.exports)
                       ELSE Offending(d.mementos, loc.produced.mementos)
                /\ Persisted(loc.res).dirty)
    /\ [][(pc = "join" /\ pc' = "up_loop") =>
            LET r == loc.res
                d == mdl.data[r]
                e == ResourcesOf(stored')[r]
            IN  /\ ~e.dirty
                /\ e.exports = resources_vars'[r]
                /\ DOMAIN e.exports = d.exports
                /\ DOMAIN e.mementos = d.mementos]_vars

\* web declares the exports x and y, its up script exits with status 0 and
\* leaves x alone: the transition fails and names y.
C16_Witness ==
    /\ ProductsRejected
    /\ mdl.data["web"].exports = {"x", "y"}
    /\ DOMAIN loc.produced.exports = {"x"}
    /\ error = ProductsError("web", "did not export", "variable", {"y"})

\* The entry of r in the persisted document is clean and the names of its
\* exports and mementos are the ones the running model declares.
SatisfiesContract(r) ==
    LET e == Persisted(r)
        d == mdl.data[r]
    IN  ~Get(e, "dirty", TRUE) =>
            /\ DOMAIN Get(e, "exports", << >>) = d.exports
            /\ DOMAIN Get(e, "mementos", << >>) = d.mementos

\* The invocation is in its up loop.
UpPhase ==
    pc \in {"up_loop", "id_down_script", "precheck_script", "up_script", "join"}

\* The up loop of the running invocation has brought r up or found it up to
\* date.
Accepted(r) ==
    /\ UpPhase
    /\ \E i \in 1..(res_i - 1) : resources_to_up[i] = r

\* C17, as stated: in the persisted document a run leaves, every entry with
\* dirty=false has exports and mementos whose names are the ones the model
\* declares for the resource.
C17_Original ==
    pc = "exiting" =>
        \A r \in DOMAIN ResourcesOf(stored) \cap mdl.resources :
            SatisfiesContract(r)

\* C17, amended: every entry with dirty=false that the running invocation has
\* committed or found up to date has exports and mementos whose names are the
\* ones the model of that invocation declares.
C17_CleanContract ==
    \A r \in DOMAIN ResourcesOf(stored) \cap mdl.resources :
        Accepted(r) => SatisfiesContract(r)

\* A second run finds web, which declares x, y and key, up to date.
C17_Witness ==
    /\ Accepted("web")
    /\ last.runs = 1
    /\ ran = {}
    /\ ~Persisted("web").dirty
    /\ mdl.data["web"].exports = {"x", "y"}
    /\ mdl.data["web"].mementos = {"key"}

\* Model m names a resource it does not define in a depends or an import,
\* imports a variable its source does not export, or uses a mode that is not
\* defined.
NamesUndefined(m) ==
    \/ \E r \in m.resources : ~(m.dependencies[r] \subseteq m.resources)
    \/ \E r \in m.resources : \E i \in DOMAIN m.data[r].imports :
          LET source == m.data[r].imports[i][1]
          IN  /\ source \in m.resources
              /\ m.data[r].imports[i][2] \notin m.data[source].exports
    \/ \E r \in m.resources : ~(m.data[r].used_modes \subseteq Modes)

\* The invocation has ended at finalization: no session, no lock, no script,
\* no error other than the one of validate_and_finalize_model.
RejectedAtFinalization ==
    /\ pc = "exiting"
    /\ result = "fail"
    /\ error.kind \in {"non-existent resource", "not exported",
                        "undefined mode", "circular"}
    /\ ~opened
    /\ lock # "main"
    /\ ran = {}
    /\ resources_to_up = << >>

\* C18: an invocation on a model that names an undefined resource in a
\* depends or an import, imports a variable its source does not export or
\* uses an undefined mode is rejected at finalization: it never holds the
\* lock, runs no script and writes nothing.
C18_ModelErrorsPrecedeMutation ==
    (pc # "idle" /\ NamesUndefined(mdl)) => RejectedAtFinalization

\* Resource r lies on a cycle of the graph deps.
OnCycle(deps, r) ==
    r \in DOMAIN deps /\ r \in with_all_dependencies(deps[r], deps)

\* C19: an invocation on a model whose dependency graph, the union of the
\* depends and import edges, has a cycle fails at finalization with the
\* circular-dependency error, which names every resource on a cycle, and
\* has no resource order.
C19_CycleDetection ==
    ( /\ pc # "idle"
      /\ ~NamesUndefined(mdl)
      /\ \E r \in mdl.resources : OnCycle(mdl.dependencies, r) )
    => /\ RejectedAtFinalization
       /\ error.kind = "circular"
       /\ \A r \in mdl.resources :
             OnCycle(mdl.dependencies, r) => r \in error.names

\* The invocation has selected its resources.
Selected ==
    pc \in {"planned", "down_loop", "down_script", "up_loop", "id_down_script",
            "precheck_script", "up_script", "join"}

\* The invocation has failed on the workspace: nothing is selected, no script
\* has run.
WorkspaceRejected ==
    error.kind = "workspace" =>
        /\ result = "fail"
        /\ resources_to_down = << >>
        /\ resources_to_up = << >>
        /\ ran = {}

\* An invocation that selects its resources works on a document that holds
\* the selected workspace: it was there, or the document was empty and the
\* workspace was recorded in it.
WorkspaceRecorded ==
    Selected => Get(state, "workspace", "") = opts.workspace

\* C20, as stated: a run whose loaded document is not empty and holds another
\* workspace than the selected one fails before any selection, any script
\* and any write of the document; into an empty document the selected
\* workspace is recorded.
C20_Original ==
    /\ []WorkspaceRejected
    /\ []WorkspaceRecorded
    /\ [][(pc # "idle" /\ stored' # stored) => ~WorkspaceMismatch(stored, opts)]_vars

\* C20, amended: a run whose document, as loaded or as the operator saved it
\* from the editor of --edit, is not empty and holds another workspace than
\* the selected one fails before any selection and any script, and the only
\* write over a stored document of another workspace is the one of the
\* document saved from the editor; into an empty document the selected
\* workspace is recorded.
C20_WorkspaceGuard ==
    /\ []WorkspaceRejected
    /\ []WorkspaceRecorded
    /\ [][(pc = "edited" /\ WorkspaceMismatch(state, opts)) =>
            (pc' = "closing" /\ error'.kind = "workspace" /\ stored' = stored)]_vars
    /\ [][(pc # "idle" /\ stored' # stored /\ WorkspaceMismatch(stored, opts)) =>
            pc = "editing"]_vars

\* A run with --edit for workspace dev has written the document the operator
\* saved, which holds no workspace, and then failed on the workspace.
C20_Witness ==
    /\ pc = "closing"
    /\ error.kind = "workspace"
    /\ "edit" \in opts.flags
    /\ opts.workspace = "dev"
    /\ stored = [resources |-> << >>]

\* The run is ending after the precheck script of loc.res has failed.
PrecheckFailed ==
    /\ pc \in {"closing", "exiting"}
    /\ result = "fail"
    /\ << "precheck", loc.res >> \in ran
    /\ << "up", loc.res >> \notin ran

\* The run is ending after the up script of loc.res has failed.
UpFailed ==
    /\ pc \in {"closing", "exiting"}
    /\ loc.up_exit = "fail"

\* C21: when a precheck or up script exits with a non-zero status the run
\* goes to its end as failed, no script is started from then on, and the
\* persisted document does not hold the failed resource with dirty=false.
C21_FailStop ==
    /\ [][(pc = "precheck_script" /\ pc' # "idle" /\ << "up", loc.res >> \notin ran')
            => (pc' = "closing" /\ result' = "fail")]_vars
    /\ [][(pc = "up_script" /\ loc'.up_exit = "fail")
            => (pc' = "closing" /\ result' = "fail")]_vars
    /\ [][(pc \in {"closing", "exiting"}) => (ran' \subseteq ran)]_vars
    /\ []((PrecheckFailed \/ UpFailed) => Get(Persisted(loc.res), "dirty", TRUE))

\* The up script of db has failed in a run that was to bring up app after
\* it: the run is at its end and no script of app was run.
C21_Witness ==
    /\ UpFailed
    /\ pc = "exiting"
    /\ loc.res = "db"
    /\ resources_to_up = << "db", "app" >>
    /\ ran = {<< "precheck", "db" >>, << "up", "db" >>}
    /\ Persisted("db").dirty

\* The persisted document after the step holds the entry of r, dirty.
PersistedDirtyNext(r) ==
    /\ r \in DOMAIN ResourcesOf(stored')
    /\ ResourcesOf(stored')[r].dirty

\* C22: when a down script has ended, with whatever status, either the run
\* goes on as after a successful down (explicit down: the entry is deleted
\* from the persisted document and the loop moves to the next resource;
\* identity change: the up script of the resource is started), which is
\* what happens on status 0 and on a failure the operator chose to ignore,
\* or the run ends as failed with the entry persisted with dirty=true,
\* which is what happens when the operator declines.
C22_DownOverride ==
    /\ [][(pc = "down_script" /\ pc' # "idle") =>
            \/ /\ pc' = "down_loop"
               /\ res_i' = res_i + 1
               /\ loc.res \notin DOMAIN ResourcesOf(stored')
               /\ result' = result
            \/ /\ pc' = "closing"
               /\ result' = "fail"
               /\ PersistedDirtyNext(loc.res)]_vars
    /\ [][(pc = "id_down_script" /\ pc' # "idle") =>
            \/ /\ pc' = "up_script"
               /\ loc'.res = loc.res
               /\ << "up", loc.res >> \in ran'
               /\ result' = result
            \/ /\ pc' = "closing"
               /\ result' = "fail"
               /\ PersistedDirtyNext(loc.res)]_vars

\* The operator has declined after the failed teardown of app, whose
\* identity changed: the run is ending as failed, the up script of app was
\* not run and the persisted entry is dirty.
C22_Witness ==
    /\ pc = "closing"
    /\ result = "fail"
    /\ loc.res = "app"
    /\ << "iddown", "app" >> \in ran
    /\ << "up", "app" >> \notin ran
    /\ Persisted("app").dirty

\* The resource whose transition a step belongs to.
InTransition == IF loc.res # None THEN loc.res ELSE loc'.res

\* C23: while the up loop runs, the down transition of every resource of the
\* down list is over (its script was run and its entry deleted, or with
\* --forget its entry deleted), and no down script starts once an up
\* transition has run a script; the checkpoint thread of an up transition
\* does not run when the next transition starts, and every write between
\* the start of the loops and the end of the run changes no entry but the
\* one of the resource in transition.
C23_SequentialPhases ==
    /\ [](UpPhase =>
            \A r \in DownList :
                /\ "forget" \in opts.flags \/ << "down", r >> \in ran
                /\ \/ r \notin DOMAIN ResourcesOf(stored)
                   \/ << "up", r >> \in ran
                   \/ loc.res = r)
    /\ [][(pc' = "down_script" /\ pc # "down_script") =>
            (\A x \in ran : x[1] = "down")]_vars
    /\ [](pc \in {"down_loop", "down_script", "up_loop", "id_down_script",
                  "precheck_script"} => lst = "none")
    /\ [][(/\ stored' # stored
           /\ pc \in {"down_loop", "down_script", "up_loop", "id_down_script",
                       "precheck_script", "up_script", "join", "closing",
                       "exiting"}
           /\ ~(pc = "down_loop" /\ "forget" \in opts.flags)) =>
            (\A r \in (DOMAIN ResourcesOf(stored) \cup DOMAIN ResourcesOf(stored'))
                        \ {InTransition} :
                /\ r \in DOMAIN ResourcesOf(stored)
                /\ r \in DOMAIN ResourcesOf(stored')
                /\ ResourcesOf(stored')[r] = ResourcesOf(stored)[r])]_vars

\* The up script of app runs in a run that has brought down app and db
\* before.
C23_Witness ==
    /\ pc = "up_script"
    /\ loc.res = "app"
    /\ resources_to_down = << "app", "db" >>
    /\ ran = {<< "down", "app" >>, << "down", "db" >>, << "precheck", "app" >>,
              << "up", "app" >>}
    /\ DOMAIN ResourcesOf(stored) = {"app"}

\* The scripts that change the deployed resource r and were run in this run.
Mutations(r) == {k \in {"down", "iddown", "up"} : << k, r >> \in ran}

\* C24, as stated: in any single run at most one mutating script is
\* executed for every resource; no resource is both brought down and
\* brought up in the same run.
C24_Original == \A r \in Names : Cardinality(Mutations(r)) <= 1

\* C24, amended: in any single run each of the explicit down script, the
\* teardown of an identity change and the up script is started at most once
\* for every resource; a down script or teardown of a resource is started
\* before any other script of that resource, and no resource gets both an
\* explicit down and a teardown. A resource is brought down and up in the
\* same run when its identity changed (teardown, then up) or when it is
\* still defined while the down list holds it (down, then up as new).
C24_OncePerKind ==
    /\ [][(pc' = "down_script" /\ pc # "down_script")
            => (\A k \in {"down", "iddown", "precheck", "up"} :
                    << k, loc'.res >> \notin ran)]_vars
    /\ [][(pc' = "id_down_script" /\ pc # "id_down_script")
            => (\A k \in {"down", "iddown", "precheck", "up"} :
                    << k, loc'.res >> \notin ran)]_vars
    /\ [][(pc' = "precheck_script" /\ pc # "precheck_script")
            => (\A k \in {"precheck", "up"} : << k, loc'.res >> \notin ran)]_vars
    /\ [][(pc' = "up_script" /\ pc # "up_script")
            => (<< "up", loc'.res >> \notin ran)]_vars
    /\ [](\A r \in Names : Cardinality(Mutations(r)) <= 2
                           /\ Mutations(r) # {"down", "iddown"})

\* A resource that was brought down is brought up, as new, in the same run.
C24_Witness ==
    /\ pc = "up_script"
    /\ Mutations(loc.res) = {"down", "up"}
    /\ loc.is_new

\* The entry persisted under name r is no longer persisted under that name
\* after the step.
Disappears(r) ==
    r \in DOMAIN ResourcesOf(stored) /\ r \notin DOMAIN ResourcesOf(stored')

\* The step is the end of the explicit down transition of r: its script
\* succeeded or the operator overrode its failure.
DownCompletes(r) == pc = "down_script" /\ loc.res = r /\ pc' = "down_loop"

\* The step is the deletion --forget makes, and r is on its list.
ForgetStep(r) ==
    pc = "down_loop" /\ "forget" \in opts.flags /\ r \in ToSet(resources_to_down)

\* The step stores the entry of r, as it is, under the name r is an alias of.
RelabelStep(r) ==
    /\ pc = "planned"
    /\ NewName(mdl.aliases, r) # r
    /\ NewName(mdl.aliases, r) \in DOMAIN ResourcesOf(stored')
    /\ ResourcesOf(stored')[NewName(mdl.aliases, r)] = ResourcesOf(stored)[r]

\* C25: an entry leaves the persisted document only at the end of an
\* explicit down transition of its resource (script succeeded or failure
\* overridden) or by --forget, an entry that a rename keeps under the
\* current name not counting as gone; a completed down leaves the persisted
\* document without the entry; no other step removes an entry.
C25_EntryLifecycle ==
    /\ [][\A r \in Names :
            Disappears(r) => (DownCompletes(r) \/ ForgetStep(r) \/ RelabelStep(r))]_vars
    /\ [][\A r \in Names :
            DownCompletes(r) => (r \notin DOMAIN ResourcesOf(stored'))]_vars

\* The up files the model renders for t are the ones the entry e holds.
RenderedUnchanged(t, e) ==
    LET new_files == Render(mdl.data[t], Imports(mdl.data[t], resources_vars))
        old_files == Get(e, "files", << >>)
    IN  add_dicts(new_files.common, new_files.up)
            = add_dicts(Get(old_files, "common", << >>), Get(old_files, "up", << >>))

\* The step starts a script of up_resource for t: precheck or teardown.
UpResourceRuns(t) ==
    /\ pc = "up_loop"
    /\ pc' \in {"precheck_script", "id_down_script"}
    /\ loc'.res = t

\* C26: when a persisted resource name is an alias of a resource of the
\* model, the write that opens the processing stores the entry, as it is,
\* under the current name and no longer under the old one; no down script is
\* run for the old name; and a clean entry under the current name whose
\* rendered content is unchanged gets no script in a run without --full of
\* a resource that is not always refreshed.
C26_Renames ==
    /\ [][(pc = "planned" /\ pc' = "down_loop")
            => (\A r \in DOMAIN ResourcesOf(stored) \cap DOMAIN mdl.aliases :
                    RelabelStep(r) /\ r \notin DOMAIN ResourcesOf(stored'))]_vars
    /\ [](\A r \in DOMAIN mdl.aliases : << "down", r >> \notin ran)
    /\ [][\A t \in {mdl.aliases[r] : r \in DOMAIN mdl.aliases} :
            ( /\ UpResourceRuns(t)
              /\ t \in DOMAIN state.resources
              /\ ~Get(state.resources[t], "dirty", TRUE)
              /\ "full" \notin opts.flags
              /\ ~mdl.data[t].always_refresh )
            => ~RenderedUnchanged(t, state.resources[t])]_vars

\* The existing resources that the model does not define any more.
Stale == DOMAIN ResourcesOf(stored) \ mdl.resources

\* The stale resources and what depends on them, by the stored deps.
StaleClosure == Stale \cup UNION {TransitiveDependents(StoredGraph, s) : s \in Stale}

Unfiltered == opts.only = Names /\ opts.tags = Names /\ opts.skip = {} /\ opts.skip_tags = {}

\* C27: without --down the down list holds only existing resources that
\* the model does not define any more and resources that depend on one of
\* them by the stored deps (all of these when no filter is given), so a
\* resource still defined that depends on no removed one is not brought
\* down; with --down the up list is empty and the down list holds only
\* existing resources, all of them when no filter is given.
C27_DownCandidates ==
    Planned =>
        /\ DownList \subseteq DOMAIN ResourcesOf(stored)
        /\ "down" \notin opts.flags =>
              /\ DownList \subseteq StaleClosure
              /\ \A r \in mdl.resources :
                    (\A s \in Stale : s \notin TransitiveDeps(StoredGraph, r))
                        => r \notin DownList
              /\ Unfiltered => DownList = StaleClosure
        /\ "down" \in opts.flags =>
              /\ resources_to_up = << >>
              /\ Unfiltered => DownList = DOMAIN ResourcesOf(stored)

\* Without --down a removed resource is brought down with a dependent that
\* is still defined, and another existing resource that is still defined
\* and passes the filters is left alone.
C27_Witness ==
    /\ Planned
    /\ "down" \notin opts.flags
    /\ \E s \in Stale \cap DownList, x \in mdl.resources \cap DownList,
          r \in mdl.resources \cap DOMAIN ResourcesOf(stored) :
          /\ x \in TransitiveDependents(StoredGraph, s)
          /\ r \notin DownList
          /\ is_included(opts, r)
          /\ ~is_excluded(opts, r)

\* The positions of s outside any bracket that hold operator op.
TopLevel(s, op) ==
    {i \in DOMAIN s :
        /\ s[i] = op
        /\ Cardinality({j \in 1..(i - 1) : s[j] = "("})
               = Cardinality({j \in 1..(i - 1) : s[j] = ")"})}

First(S) == CHOOSE i \in S : \A j \in S : i <= j

RECURSIVE Meaning(_, _)
\* The truth value of expression s over the tag set tags, as a set: {TRUE},
\* {FALSE}, or {} when s is no expression.  s is split at its first |
\* outside brackets, or else at its first & outside brackets, or else is a
\* negation, a bracketed expression, a tag or a constant.
Meaning(s, tags) ==
    LET split(i) == << Meaning(SubSeq(s, 1, i - 1), tags),
                       Meaning(SubSeq(s, i + 1, Len(s)), tags) >>
        both(v) == IF v[1] = {} \/ v[2] = {} THEN {} ELSE {TRUE}
    IN  IF s = << >> THEN {}
        ELSE IF TopLevel(s, "|") # {}
        THEN LET v == split(First(TopLevel(s, "|")))
             IN  IF both(v) = {} THEN {} ELSE {(TRUE \in v[1]) \/ (TRUE \in v[2])}
        ELSE IF TopLevel(s, "&") # {}
        THEN LET v == split(First(TopLevel(s, "&")))
             IN  IF both(v) = {} THEN {} ELSE {(TRUE \in v[1]) /\ (TRUE \in v[2])}
        ELSE IF s[1] = "!"
        THEN {~x : x \in Meaning(Tail(s), tags)}
        ELSE IF s[1] = "(" /\ s[Len(s)] = ")"
        THEN Meaning(SubSeq(s, 2, Len(s) - 1), tags)
        ELSE IF Len(s) = 1 /\ s[1] \in TagNames THEN {s[1] \in tags}
        ELSE IF Len(s) = 1 /\ s[1] = "0" THEN {FALSE}
        ELSE IF Len(s) = 1 /\ s[1] = "1" THEN {TRUE}
        ELSE {}

TagSets == SUBSET TagNames

Pretending == "pretend" \in opts.flags

\* C29: a run with --pretend starts no up, down or precheck script and no
\* step of it, from its start to its exit, changes the persisted state
\* document, whatever its two lists hold.
C29_PretendReadOnly ==
    /\ [](Pretending => ran = {})
    /\ [][(Pretending \/ Pretending') => (stored' = stored)]_vars
    /\ [](Pretending => pc \in {"planned", "closing", "exiting"})

\* A pretended run that has resources to bring down and to bring up ends
\* with the document of the run before it.
C29_Witness ==
    /\ Pretending
    /\ pc = "exiting"
    /\ result = "success"
    /\ resources_to_down = << "app", "db" >>
    /\ resources_to_up = << "app" >>
    /\ ran = {}
    /\ DOMAIN ResourcesOf(stored) = {"app", "db"}

\* C30: while the explicit down script of a resource is executing, the
\* persisted state document holds the entry of that resource with
\* dirty = true; and every step that leaves the script otherwise than by
\* completing the transition (the failure is not overridden, or the
\* invocation is interrupted) leaves that entry persisted and dirty.
C30_DownCrashSafe ==
    /\ [](pc = "down_script" =>
            /\ loc.res \in DOMAIN ResourcesOf(stored)
            /\ Get(Persisted(loc.res), "dirty", FALSE) = TRUE)
    /\ [][(pc = "down_script" /\ pc' # "down_script" /\ ~DownCompletes(loc.res))
            => PersistedDirtyNext(loc.res)]_vars

\* With --down, app is brought down and gone and the down script of db is
\* executing.
C30_Witness ==
    /\ pc = "down_script"
    /\ "down" \in opts.flags
    /\ loc.res = "db"
    /\ << "down", "app" >> \in ran
    /\ DOMAIN ResourcesOf(stored) = {"db"}
    /\ Persisted("db").dirty

\* ---------------------------------------------------------------- metadata
\* Runs in which the model changes what up_resource records of a resource
\* without changing what triggers its up script: its tags, the modes it
\* uses, its down script, its dependencies.

\* A resource that imports and exports nothing, with these tags, used modes
\* and variant of the down script.
MetaData(tags, used_modes, downver) ==
    [PlainData EXCEPT !.tags = tags, !.used_modes = used_modes,
                      !.downver = downver]

\* app alone, in every combination of tags, used modes and down script, app
\* always refreshed with either down script, app declaring an export, with
\* the second down script, and app that depends on db.
MetaModels ==
    {MakeModel([r \in {"app"} |-> {}],
               [app |-> MetaData(tags, used_modes, downver)]) :
        tags \in {Untagged, {"a"}}, used_modes \in {{}, Modes},
        downver \in {1, 2}}
    \cup
    {MakeModel([r \in {"app"} |-> {}],
               [app |-> [MetaData(Untagged, {}, downver)
                            EXCEPT !.always_refresh = TRUE]]) :
        downver \in {1, 2}}
    \cup
    {MakeModel([r \in {"app"} |-> {}],
               [app |-> [MetaData(Untagged, {}, 2) EXCEPT !.exports = {"host"}]])}
    \cup
    {MakeModel([app |-> {"db"}, db |-> {}],
               [app |-> PlainData, db |-> PlainData])}

\* The command lines of these runs: no filter, and --down,
\* --ignore-precheck, --full or no flag.
MetaOptions ==
    {Options(Names, {}, flags) :
        flags \in {{}, {"down"}, {"ignore_precheck"}, {"full"}}}

\* One invocation more than MaxRuns: an up, a change of the model, a down.
MetaStart ==
    /\ pc = "idle"
    /\ last.runs < MaxRuns + 1
    /\ \E m \in MetaModels, o \in MetaOptions : StartRun(m, o)

InitMeta == Idle(<< >>)

NextMeta ==
    \/ MetaStart
    \/ Proceed
    \/ DownBegin
    \/ DownExit
    \/ DownsDone
    \/ UpBegin
    \/ PrecheckExit
    \/ ScriptEmit
    \/ UpScriptExit
    \/ ListenerRead
    \/ ListenerWrite
    \/ ListenerPut
    \/ ListenerEOF
    \/ UpJoin
    \/ UpsDone
    \/ CloseSession
    \/ ProcessExit

SpecMeta == InitMeta /\ [][NextMeta]_vars

\* The step of up_resource that takes the up-to-date branch and returns:
\* the loop of main moves to the next resource and no script was started.
UpToDateStep ==
    /\ pc = "up_loop"
    /\ pc' = "up_loop"
    /\ res_i' = res_i + 1

\* C31: after an up transition that takes the up-to-date branch, the
\* persisted entry of the resource has the dependencies, the tags and the
\* used modes the model gives the resource.
C31_MetadataCurrent ==
    [][UpToDateStep =>
        LET r == resources_to_up[res_i]
            e == ResourcesOf(stored')[r]
        IN  /\ e.deps = mdl.dependencies[r]
            /\ e.tags = mdl.data[r].tags
            /\ e.used_modes = mdl.data[r].used_modes]_vars

\* C31, part that holds: the dependencies and the tags are current.
C31_DepsTagsCurrent ==
    [][UpToDateStep =>
        LET r == resources_to_up[res_i]
            e == ResourcesOf(stored')[r]
        IN  /\ e.deps = mdl.dependencies[r]
            /\ e.tags = mdl.data[r].tags]_vars

\* The step of up_resource that starts the precheck script of a resource.
PrecheckStarts ==
    /\ pc = "up_loop"
    /\ pc' = "precheck_script"

FILE_BAGS == << "up", "down", "common" >>

\* Calls of Resource.file by the model file, at most.
MaxCalls == 5

\* _ResourceData.__init__, lines 18-23: files and _dirs, empty, per bag.
_ResourceData ==
    [ files |-> [bag \in ToSet(FILE_BAGS) |-> {}],
      _dirs |-> [bag \in ToSet(FILE_BAGS) |-> {}] ]

\* The model that holds one resource, app, under construction.
ResourceModel(data) == [NoModel EXCEPT !.resources = {"app"},
                                       !.data = [app |-> data]]

\* What a call of Resource.file leaves and raises
Outcome(data, raised) == [ data |-> data, raised |-> raised ]

\* Only the bag itself is checked.
CheckBags_own(bag) == << bag >>

\* Resource.file, line 123: the bags a destination is checked against.
CheckBags(bag) == IF bag = "common" THEN FILE_BAGS ELSE << bag, "common" >>

\* Resource.file, lines 124-134: one round of the loop over check_bag. The
\* prefixes before the first one that is a file are added to _dirs before
\* the exception is raised.
check_bag(data, bag, dest) ==
    IF dest \in data._dirs[bag]
    THEN Outcome(data, "path is a directory")
    ELSE LET files == {k \in 1..(Len(dest) - 1) :
                          SubSeq(dest, 1, k) \in data.files[bag]}
             stop == IF files = {} THEN Len(dest)
                     ELSE CHOOSE k \in files : \A j \in files : k <= j
             added == [data EXCEPT !._dirs[bag] =
                          @ \cup {SubSeq(dest, 1, k) : k \in 1..(stop - 1)}]
         IN  IF files # {}
             THEN Outcome(added, "file already exists")
             ELSE Outcome([added EXCEPT !.files[bag] = @ \ {dest}], None)

\* Resource.file, line 123: the loop, which the first exception leaves.
RECURSIVE check_bags(_, _, _)
check_bags(data, bags, dest) ==
    IF bags = << >>
    THEN Outcome(data, None)
    ELSE LET checked == check_bag(data, Head(bags), dest)
         IN  IF checked.raised # None
             THEN checked
             ELSE check_bags(checked.data, Tail(bags), dest)

\* Resource.file, lines 111-146
file(data, bag, dest) ==
    IF \/ bag \notin ToSet(FILE_BAGS)
       \/ dest # << >> /\ dest[1] = "/"
       \/ ".." \in ToSet(dest)
       \/ dest = << >>
    THEN Outcome(data, "AssertionError")
    ELSE IF dest = << "identity" >> /\ bag \notin {"common", "up"}
    THEN Outcome(data, "'identity' must be in either 'common' or 'up' bag")
    ELSE LET checked == check_bags(data, CheckBags(bag), dest)
         IN  IF checked.raised # None
             THEN checked
             ELSE Outcome([checked.data EXCEPT !.files[bag] = @ \cup {dest}],
                          None)

\* The bags the model files name: the three of FILE_BAGS and precheck.
BagNames == ToSet(FILE_BAGS) \cup {"precheck"}

\* The destinations given to Resource.file: paths of one to three parts
\* over the names a and b, the empty path, identity, a path with '..' and
\* an absolute path.
Dests ==
    { << >>, << "a" >>, << "b" >>, << "a", "a" >>, << "a", "b" >>,
      << "b", "a" >>, << "b", "b" >>, << "a", "b", "a" >>,
      << "identity" >>, << "a", ".." >>, << "/", "a" >> }

InitFiles ==
    /\ mdl = ResourceModel(_ResourceData)
    /\ opts = NoOptions
    /\ stored = << >>
    /\ opened = FALSE
    /\ state = << >>
    /\ pc = "idle"
    /\ result = "none"
    /\ resources_to_down = << >>
    /\ resources_to_up = << >>
    /\ res_i = 0
    /\ resources_vars = << >>
    /\ loc = NoLoc
    /\ work = NoWork
    /\ fifo = << >>
    /\ wopen = FALSE
    /\ lst = "none"
    /\ emitted = 0
    /\ ran = {}
    /\ last = NoLast
    /\ repeat = FALSE
    /\ backend = "aws"
    /\ lock = "none"
    /\ waited = 0
    /\ rival = NoRival
    /\ error = NoError

\* A call of Resource.file by the model file that returns: the file is
\* stored. res_i counts the calls.
FileStored ==
    /\ pc = "idle"
    /\ res_i < MaxCalls
    /\ res_i' = res_i + 1
    /\ \E bag \in BagNames, dest \in Dests :
          LET called == file(mdl.data.app, bag, dest)
          IN  /\ called.raised = None
              /\ mdl' = ResourceModel(called.data)
    /\ result' = "ok"
    /\ UNCHANGED << opts, stored, opened, state, pc, resources_to_down,
                    resources_to_up, resources_vars, loc, work, fifo, wopen,
                    lst, emitted, ran, last, repeat >>
    /\ UNCHANGED sessvars

\* A call of Resource.file that raises, which the model file catches: the
\* resource keeps what the call did before it raised.
FileRaises ==
    /\ pc = "idle"
    /\ res_i < MaxCalls
    /\ res_i' = res_i + 1
    /\ \E bag \in BagNames, dest \in Dests :
          LET called == file(mdl.data.app, bag, dest)
          IN  /\ called.raised # None
              /\ mdl' = ResourceModel(called.data)
    /\ result' = "fail"
    /\ UNCHANGED << opts, stored, opened, state, pc, resources_to_down,
                    resources_to_up, resources_vars, loc, work, fifo, wopen,
                    lst, emitted, ran, last, repeat >>
    /\ UNCHANGED sessvars

NextFiles == FileStored \/ FileRaises

SpecFiles == InitFiles /\ [][NextFiles]_vars

\* Path p is a proper directory prefix of path q.
ProperPrefix(p, q) == Len(p) < Len(q) /\ SubSeq(q, 1, Len(p)) = p

\* The files of the resource under construction, per bag
Files == mdl.data.app.files

\* C33: after any sequence of calls of Resource.file, returned or raised,
\* among the files of up and common, and among those of down and common,
\* no path is a proper directory prefix of another, and no path of common
\* is also a path of up or of down.
C33_BagConsistency ==
    \A bag \in {"up", "down"} :
        /\ \A p, q \in Files[bag] \cup Files.common : ~ProperPrefix(p, q)
        /\ Files.common \cap Files[bag] = {}

\* C33: the last call raised, after calls that stored files in the three
\* bags, one of them under a directory.
C33_Witness ==
    /\ result = "fail"
    /\ \A bag \in ToSet(FILE_BAGS) : Files[bag] # {}
    /\ \E bag \in ToSet(FILE_BAGS) : \E p \in Files[bag] : Len(p) > 1

\* The up transition of a resource the model defines is about to begin.
UpTransitionBegins ==
    /\ pc = "up_loop"
    /\ res_i <= Len(resources_to_up)
    /\ resources_to_up[res_i] \in mdl.resources

\* The resource has completed its up transition in this run and has
\* published the variable: it stands earlier in the up list, and
\* resources_vars holds the variable for it.
Published(source, name) ==
    /\ source \in ToSet(SubSeq(resources_to_up, 1, res_i - 1))
    /\ source \in DOMAIN resources_vars
    /\ name \in DOMAIN resources_vars[source]

\* C34: when the up transition of a resource of the up list begins, the
\* source of each of its imports has completed its up transition in the
\* same run and has published the imported variable.
C34_ImportsResolvable ==
    UpTransitionBegins =>
        LET imports == mdl.data[resources_to_up[res_i]].imports
        IN  \A i \in DOMAIN imports : Published(imports[i][1], imports[i][2])

\* C34, part that holds: the same of the imports from other resources.
C34_ImportsFromOthers ==
    UpTransitionBegins =>
        LET r == resources_to_up[res_i]
            imports == mdl.data[r].imports
        IN  \A i \in DOMAIN imports :
               imports[i][1] # r => Published(imports[i][1], imports[i][2])

\* The lists of the run are computed and nothing is relabelled or processed
\* yet: the persisted document is the one the run found.
ListsComputed == pc = "planned"

\* C35: when a persisted entry is relabelled through an alias, no entry
\* already having the new name, and another persisted entry has the old
\* name in its deps, a down list that holds the new name also holds the
\* dependent entry, before it.
C35_RenamedDependents ==
    ListsComputed =>
        \A old \in DOMAIN mdl.aliases \cap DOMAIN ResourcesOf(stored) :
            \A b \in DOMAIN ResourcesOf(stored) \ DOMAIN mdl.aliases :
                ( /\ mdl.aliases[old] \notin DOMAIN ResourcesOf(stored)
                  /\ old \in Get(ResourcesOf(stored)[b], "deps", {})
                  /\ mdl.aliases[old] \in ToSet(resources_to_down) )
                => /\ b \in ToSet(resources_to_down)
                   /\ Position(resources_to_down, b) <
                          Position(resources_to_down, mdl.aliases[old])

\* C36: once the products check that follows a successful up script has
\* failed, the persisted entry of the resource has dirty = true and no
\* exports, and that is the document the run leaves; no entry that is dirty
\* or without exports is ever taken as up to date, so the up script of such
\* an entry is executed when the up loop of a later run comes to it; and when
\* the up transition of a resource begins, each value it imports from
\* another resource is the one of a clean persisted entry.
C36_ViolationStaysDirty ==
    /\ [](ProductsRejected =>
            /\ loc.res \in DOMAIN ResourcesOf(stored)
            /\ Get(Persisted(loc.res), "dirty", FALSE)
            /\ "exports" \notin DOMAIN Persisted(loc.res))
    /\ [][(ProductsRejected /\ ~ProductsRejected') => stored' = stored]_vars
    /\ [][UpToDateStep =>
            /\ ~Get(Persisted(resources_to_up[res_i]), "dirty", TRUE)
            /\ "exports" \in DOMAIN Persisted(resources_to_up[res_i])]_vars
    /\ [](UpTransitionBegins =>
            LET r == resources_to_up[res_i]
                imports == mdl.data[r].imports
            IN  \A i \in DOMAIN imports :
                   imports[i][1] # r =>
                      LET e == Persisted(imports[i][1])
                      IN  /\ ~Get(e, "dirty", TRUE)
                          /\ imports[i][2] \in DOMAIN Get(e, "exports", << >>)
                          /\ resources_vars[imports[i][1]] = e.exports)

\* C36: the up script of db, whose host app imports, exited with status 0
\* without leaving host, in a run that found an entry of db; the run is
\* ending.
C36_Witness ==
    /\ ProductsRejected
    /\ pc = "exiting"
    /\ loc.res = "db"
    /\ loc.had_entry
    /\ "app" \in mdl.resources
    /\ "host" \notin DOMAIN loc.produced.exports

C38_WellFormedEntries ==
    \A r \in DOMAIN ResourcesOf(stored) :
        {"dirty", "deps"} \subseteq DOMAIN ResourcesOf(stored)[r]

\* C38: a run has computed its lists from a document in which an earlier
\* run left a clean entry and a dirty one.
C38_Witness ==
    /\ pc = "planned"
    /\ last.runs > 0
    /\ \E r \in DOMAIN ResourcesOf(stored) : Persisted(r).dirty
    /\ \E r \in DOMAIN ResourcesOf(stored) : ~Persisted(r).dirty

\* The identity in the files the persisted entry of r holds
PersistedIdentity(r) ==
    Get(Get(Get(Persisted(r), "files", << >>), "common", << >>),
        "identity", None)

\* The identity-change down script of loc.res has run in this run and has
\* succeeded or was overridden, and its up script has been started.
TornDown ==
    /\ loc.res # None
    /\ loc.down_done
    /\ << "iddown", loc.res >> \in ran
    /\ << "up", loc.res >> \in ran

DownBagChanged(r) ==
    LET e == Persisted(r)
        d == mdl.data[r]
        new_files == Render(d, Imports(d, resources_vars))
    IN  /\ pc = "up_loop"
        /\ res_i <= Len(resources_to_up)
        /\ r = resources_to_up[res_i]
        /\ r \in DOMAIN ResourcesOf(stored)
        /\ ~e.dirty
        /\ e.files.common = new_files.common
        /\ e.files.up = new_files.up
        /\ e.files.down # new_files.down

\* The step of up_resource on r starts no script and persists the newly
\* rendered files in the entry of r.
FilesFollow(r) ==
    /\ UpToDateStep
    /\ ran' = ran
    /\ ResourcesOf(stored')[r].files =
          Render(mdl.data[r], Imports(mdl.data[r], resources_vars))

\* A down script, of a resource brought down or of an identity change, is
\* started on the common and down files the persisted entry holds.
DownRunsStoredFiles ==
    (pc \notin {"down_script", "id_down_script"}
        /\ pc' \in {"down_script", "id_down_script"}) =>
            work'.down = add_dicts(Persisted(loc'.res).files.common,
                                   Persisted(loc'.res).files.down)

StoredProductsDeclared(r) ==
    check_products(r, mdl.data[r], Get(Persisted(r), "exports", << >>),
                   Get(Persisted(r), "mementos", << >>))

====
